---- MODULE Spec2Model ----
(***************************************************************************)
(* XM125 radar monitor: the register-level command/status protocol of the  *)
(* radar session (src/src/radar.rs), of the modular session                *)
(* (src/src/radar/mod.rs) and of its detectors (src/src/radar/distance.rs, *)
(* src/src/radar/presence.rs), run against a nondeterministic device.      *)
(*                                                                         *)
(* A 32-bit register word is the set of its set bit positions, so          *)
(* `word & MASK != 0` is `word \cap MASK # {}` and `word == 0x07` is       *)
(* `word = {0, 1, 2}`.  Every I2C transaction is one step of the program;  *)
(* between two steps the device may finish the command it is processing.   *)
(***************************************************************************)
EXTENDS Integers, Sequences, FiniteSets, TLC

(* ----------------------------- bounds --------------------------------- *)

\* Poll iterations a polling loop makes before its deadline has passed.
MaxPolls == 1

\* Minutes found on the clock since the last calibration when a call is
\* made: the example ages on both sides of the limit, and the limit itself.
Ages == {2, 5, 6}

(* ------------------- register map (src/src/radar.rs) ------------------ *)

CMD_APPLY_CONFIG_AND_CALIBRATE == 1
CMD_MEASURE_DISTANCE == 2
CMD_RESET_MODULE == 1381192737
CMD_DISABLE_DETECTOR == CMD_RESET_MODULE
CMD_PRESENCE_APPLY_CONFIGURATION == 1
CMD_PRESENCE_START == 2
CMD_ENABLE_PRESENCE_DETECTOR == CMD_PRESENCE_APPLY_CONFIGURATION
CMD_BREATHING_APPLY_CONFIGURATION == 1
CMD_BREATHING_START_APP == 2

\* `(x * 1000.0) as u32` of a distance x held in micrometres: the cast
\* drops the fraction of a millimetre.
to_mm(um) == um \div 1000

\* u32::to_be_bytes and u32::to_le_bytes: the four bytes handed to
\* write_register, first byte on the bus first.
to_be_bytes(n) ==
    <<(n \div 16777216) % 256, (n \div 65536) % 256, (n \div 256) % 256,
      n % 256>>
to_le_bytes(n) ==
    <<n % 256, (n \div 256) % 256, (n \div 65536) % 256,
      (n \div 16777216) % 256>>

\* Distance layout of the detector status word
STATUS_DISTANCE_DETECTOR_CREATE_OK == {3}
STATUS_DISTANCE_SENSOR_CALIBRATE_OK == {8}

\* Generic masks used by the session
STATUS_RSS_REGISTER_OK == {0}
STATUS_CONFIG_CREATE_OK == {1}
STATUS_SENSOR_CREATE_OK == {2}
STATUS_SENSOR_CALIBRATE_OK == {3}
STATUS_DETECTOR_CREATE_OK == {4}
STATUS_BUSY == {31}
STATUS_ERROR == {28}
STATUS_CONFIG_CREATE_ERROR == {17}
STATUS_SENSOR_CREATE_ERROR == {18}
STATUS_SENSOR_CALIBRATE_ERROR == {24}
STATUS_DETECTOR_CREATE_ERROR == {20}
STATUS_DETECTOR_CALIBRATE_ERROR == {25}
STATUS_CONFIG_APPLY_ERROR == {23}
STATUS_ALL_ERROR_MASK ==
    STATUS_CONFIG_CREATE_ERROR \cup STATUS_SENSOR_CREATE_ERROR
        \cup STATUS_SENSOR_CALIBRATE_ERROR \cup STATUS_DETECTOR_CREATE_ERROR
        \cup STATUS_DETECTOR_CALIBRATE_ERROR \cup STATUS_CONFIG_APPLY_ERROR
STATUS_MEASUREMENT_READY == {2}

\* `Duration::from_secs(300)`, in minutes
CALIBRATION_STALE_MINUTES == 5

\* auto_connect
MAX_RETRIES == 3

\* Bits of the packed distance result word
RESULT_CALIBRATION_NEEDED == {9}

\* Bit 15 of the presence result word
RESULT_PRESENCE_DETECTOR_ERROR == {15}

DetectorMode == {"Distance", "Presence", "Combined", "Breathing"}

(* ------------------------------ state --------------------------------- *)

VARIABLES
    is_connected,       \* XM125Radar.is_connected
    is_calibrated,      \* XM125Radar.is_calibrated
    last_calibration,   \* <<>> for None, <<m>> for Some(instant m minutes ago)
    detector_mode,      \* XM125Radar.config.detector_mode
    auto_reconnect,     \* XM125Radar.config.auto_reconnect
    pc,                 \* position of the running call ("idle": none)
    stack,              \* continuations of the enclosing calls
    op,                 \* the public method called last
    ret,                \* its result ("pending" while it runs)
    rv,                 \* result handed to a continuation that matches on it
    attempt,            \* auto_connect: the loop variable
    elapsed,            \* poll iterations since the running poll loop began
    command,            \* write_command_safe: its argument
    status,             \* `let status = ..`: the status word read last
    dev_status,         \* device: detector status register
    dev_cmd,            \* device: the command it is processing (0: none)
    dev_calibrated,     \* device: it has completed a calibration since the
                        \*         last command that rebuilt its detector
    h_cmd,              \* history: the command the last step wrote, and the
                        \*          device status at that moment
    h_wrote,            \* history: this call wrote to the command register
    h_start,            \* history: last_calibration when measure_distance was called
    h_first,            \* history: result of auto_connect's first attempt
    h_reset,            \* history: results of the hardware resets of this call
    h_reads,            \* history: outcomes of the status reads of radar/mod.rs connect
    h_recal,            \* history: this call began a calibration
    h_cal,              \* history: status word this call's calibration passed on
    h_word,             \* history: result word the returned measurement is from
    dev_regs,           \* device: the presence configuration registers
    presence_range,     \* XM125Config.presence_range
    start_m,            \* XM125Config.start_m (f32 metres), in micrometres
    length_m,           \* XM125Config.length_m (f32 metres), in micrometres
    auto_profile_enabled, \* XM125Config.auto_profile_enabled
    intra_detection_threshold, \* XM125Config.intra_detection_threshold, x 1000
    inter_detection_threshold, \* XM125Config.inter_detection_threshold, x 1000
    frame_rate,         \* XM125Config.frame_rate, x 1000
    sensitivity,        \* configure_presence_parameters: its sensitivity
                        \*   argument in tenths, <<>> for None
    todo,               \* register writes the running function has still to make
    h_log,              \* history: commands and registers written and status
                        \*          words read by the presence sequence of this call
    fw_pc,              \* FirmwareManager: position of the running call
    fw_op,              \* FirmwareManager: the method called last
    fw_type,            \* its firmware_type / desired_type argument
    fw_verify,          \* update_firmware_with_verification: its verify argument
    fw_ret,             \* its result ("pending" while it runs)
    fw_log,             \* history: external programs the call has run
    dev_app_id,         \* device: application id of the firmware it runs
    dev_bootloader,     \* device: it is in bootloader mode
    current_app_id,     \* firmware_update_needed: its current_app_id argument
    device_checksum,    \* get_firmware_checksum: <<>> for Err, <<c>> for Ok(c)
    binary_checksum,    \* calculate_binary_checksum: <<>> for Err, <<c>> for Ok(c)
    fw_needed,          \* firmware_update_needed: the bool it returned
    message,            \* calibrate: the error_details of its DeviceError
    initialized,        \* XM125GpioController.initialized
    exported,           \* sysfs: the pins that have a /sys/class/gpio/gpioN
    claimed,            \* sysfs: the pins another driver holds
    direction,          \* sysfs: gpioN/direction of each pin
    value,              \* sysfs: gpioN/value of each pin
    gpio_pc,            \* XM125GpioController: position of the running call
    gpio_op,            \* XM125GpioController: the method called last
    gpio_ret,           \* its result ("pending" while it runs)
    gpio_i,             \* index of the next pin operation of the running step
    gpio_log,           \* history: the values this call has written, in order
    gpio_before,        \* history: exported and direction when initialize began
    gpio_again,         \* history: the call came right after an initialize that
                        \*          returned Ok
    gpio_quiet,         \* history: no other process has touched the pins since
                        \*          the call began
    range_args,         \* history: (start_m, length_m) the last configuration
                        \*          of the distance range converted
    range_log,          \* history: the registers it wrote and their bytes
    h_raw,              \* history: bytes of the distance and score registers
                        \*          the returned presence measurement is from
    measurement,        \* the PresenceMeasurement the call returned, <<>> if none
    mon_pc,             \* monitoring: position of the running monitor function
    mon_op,             \* monitoring: the monitor function called last
    count,              \* its count argument: <<>> for None, <<n>> for Some(n)
    measurement_count,  \* its measurement_count
    mon_ret,            \* its result ("pending" while it runs)
    confirm,            \* firmware erase: the --confirm flag of the command
    old_mode,           \* set_detector_mode: `let old_mode`, <<>> in other calls
    dm_pc,              \* DeviceManager: position of the running update_firmware
    dm_ret,             \* its result ("pending" while it runs)
    dm_state,           \* the DeviceState check_device_presence returned last
    dm_target,          \* its target_type argument
    dm_verify           \* its verify argument

vars == <<is_connected, is_calibrated, last_calibration, detector_mode,
          auto_reconnect, pc, stack, op, ret, rv, attempt, elapsed, command,
          status, dev_status, dev_cmd, dev_calibrated, h_cmd, h_wrote, h_start, h_first,
          h_reset, h_reads, h_recal, h_cal, h_word, dev_regs,
          presence_range, start_m, length_m, auto_profile_enabled,
          intra_detection_threshold, inter_detection_threshold, frame_rate,
          sensitivity, todo, h_log,
          fw_pc, fw_op, fw_type, fw_verify, fw_ret, fw_log, dev_app_id,
          dev_bootloader, current_app_id, device_checksum, binary_checksum,
          fw_needed, message, initialized, exported, claimed, direction,
          value, gpio_pc, gpio_op, gpio_ret, gpio_i, gpio_log, gpio_before,
          gpio_again, gpio_quiet, range_args, range_log, h_raw, measurement,
          mon_pc, mon_op, count, measurement_count, mon_ret, confirm,
          old_mode, dm_pc, dm_ret, dm_state, dm_target, dm_verify>>

session == <<is_connected, is_calibrated, last_calibration, detector_mode,
             auto_reconnect>>
device == <<dev_status, dev_cmd, dev_calibrated, dev_regs>>
presence == <<presence_range, start_m, length_m, auto_profile_enabled,
              intra_detection_threshold, inter_detection_threshold, frame_rate,
              sensitivity, todo, h_log>>
firmware == <<fw_pc, fw_op, fw_type, fw_verify, fw_ret, fw_log, dev_app_id,
              dev_bootloader, current_app_id, device_checksum, binary_checksum,
              fw_needed>>
gpio == <<initialized, exported, claimed, direction, value, gpio_pc, gpio_op,
          gpio_ret, gpio_i, gpio_log, gpio_before, gpio_again, gpio_quiet>>
distance_range == <<range_args, range_log>>
\* The components that hold no radar session and no firmware manager.
monitor == <<mon_pc, mon_op, count, measurement_count, mon_ret>>
erase == <<confirm>>
manager == <<dm_pc, dm_ret, dm_state, dm_target, dm_verify>>
components == <<gpio, monitor, erase, manager>>
\* What a call of the radar session leaves alone once it has begun.
decoded == <<h_raw, measurement>>
call_history == <<distance_range, decoded, old_mode>>
elsewhere == <<components, call_history>>
\* What the steps of the radar session other than calibrate's poll leave
\* alone.
apart == <<presence, firmware, message, elsewhere>>
history == <<h_start, h_first, h_reset, h_reads, h_recal, h_cal, h_word>>
locals == <<attempt, elapsed, command, status>>

\* u32::from_be_bytes
from_be_bytes(b) == ((b[1] * 256 + b[2]) * 256 + b[3]) * 256 + b[4]

\* `(raw as f32) / 1000.0`: the quotient as <<whole part, thousandths>>.
div_1000_by_hundred(raw) == <<raw \div 100, raw % 100>>
div_1000(raw) == <<raw \div 1000, raw % 1000>>

\* The PresenceMeasurement built from the result word and the bytes of the
\* distance and score registers: `(presence_value & 0x1) != 0` and the
\* three quotients.
PresenceMeasurement(word, raw) ==
    [presence_detected |-> 0 \in word,
     presence_distance |-> div_1000(from_be_bytes(raw[1])),
     intra_presence_score |-> div_1000(from_be_bytes(raw[2])),
     inter_presence_score |-> div_1000(from_be_bytes(raw[3]))]

\* The measurement is returned: Ok(PresenceMeasurement { .. })
Measured(word, raw) ==
    /\ h_word' = <<word>>
    /\ h_raw' = <<raw>>
    /\ measurement' = <<PresenceMeasurement(word, raw)>>

\* write_register(REG_START_CONFIG, ..)?; write_register(REG_END_CONFIG, ..)?
\* of a range configuration: the second write is made when the first
\* succeeded.
WroteRange(start_bytes, end_bytes, ok_start, ok_end) ==
    /\ range_args' = <<start_m, length_m>>
    /\ range_log' =
          IF ~ok_start THEN <<>>
          ELSE IF ~ok_end THEN <<[reg |-> "start", bytes |-> start_bytes]>>
          ELSE <<[reg |-> "start", bytes |-> start_bytes],
                 [reg |-> "end", bytes |-> end_bytes]>>

(* ------------------------- the device (environment) ------------------- *)

\* Status words the device shows when it is not busy: after a reset; after
\* an apply/calibrate command (every step done in the Distance layout, only
\* bits 0..4 done, a sensor calibration error); after a failed measurement.
StatusAfterReset == {0, 1, 2}
StatusAfterError == {0, 1, 2, 28}
StatusAfterApply == { {0, 1, 2, 3, 4, 8}, {0, 1, 2, 3, 4}, {0, 1, 2, 24} }

\* Result words (register 16) a read may find: one peak, one peak with
\* calibration needed, the presence detector-error bit.
ResultWords == { {0}, {0, 9}, {15} }

\* Presence result words a read may find: those, no presence, and the
\* sticky bit alone.
PresenceWords == ResultWords \cup { {}, {1} }

\* Bytes of the presence distance, intra score and inter score registers a
\* read may find: 2500 mm with scores 1300 and 1000, all zero, and 7000 mm
\* with scores 65536 and 7.
RawPresence ==
    { << <<0, 0, 9, 196>>, <<0, 0, 5, 20>>, <<0, 0, 3, 232>> >>,
      << <<0, 0, 0, 0>>, <<0, 0, 0, 0>>, <<0, 0, 0, 0>> >>,
      << <<0, 0, 27, 88>>, <<0, 1, 0, 0>>, <<0, 0, 0, 7>> >> }

\* The presence configuration registers, and what they hold after a reset
\* of the module: the reset clears them to the device's defaults (-1 here).
PresenceRegisters ==
    {"start", "end", "auto_profile", "auto_step_length", "manual_profile",
     "manual_step_length", "auto_subsweeps", "hwaas", "signal_quality",
     "intra_detection_threshold", "inter_detection_threshold", "frame_rate"}
RegistersAfterReset == [r \in PresenceRegisters |-> 0 - 1]

\* The device takes a command written to the command register and is busy
\* with it until DeviceComplete.  Command 2 is a measurement (Distance) or a
\* start (Presence, Breathing) and keeps the status bits; every other
\* command rebuilds the detector from the state after a reset.
DeviceTakes(c) ==
    /\ dev_cmd' = c
    /\ dev_regs' = IF c = CMD_RESET_MODULE THEN RegistersAfterReset
                   ELSE dev_regs
    /\ dev_status' = IF c = CMD_MEASURE_DISTANCE
                     THEN dev_status \cup STATUS_BUSY
                     ELSE StatusAfterReset \cup STATUS_BUSY
    /\ dev_calibrated' = IF c = CMD_MEASURE_DISTANCE THEN dev_calibrated
                         ELSE FALSE

\* The device reboots after a hardware reset pulse.
DeviceReboots ==
    /\ dev_cmd' = 0
    /\ dev_regs' = RegistersAfterReset
    /\ dev_status' = StatusAfterReset
    /\ dev_calibrated' = FALSE

\* The device finishes the command it is busy with.
DeviceComplete ==
    /\ dev_status \cap STATUS_BUSY # {}
    /\ \/ /\ dev_cmd = CMD_RESET_MODULE
          /\ dev_status' = StatusAfterReset
          /\ UNCHANGED dev_calibrated
       \/ /\ dev_cmd = CMD_APPLY_CONFIG_AND_CALIBRATE
          /\ dev_status' \in StatusAfterApply
          /\ dev_calibrated' = (dev_status' \cap STATUS_ALL_ERROR_MASK = {})
       \/ /\ dev_cmd = CMD_MEASURE_DISTANCE
          /\ dev_status' \in {dev_status \ STATUS_BUSY, StatusAfterError}
          /\ UNCHANGED dev_calibrated
    /\ dev_cmd' = 0
    /\ UNCHANGED <<session, pc, stack, op, ret, rv, locals, h_cmd, h_wrote,
                   history, dev_regs>>
    /\ UNCHANGED apart

(* ------------------------- calls and returns -------------------------- *)

\* `?` passes an error to the caller; auto_connect's `match` is the one
\* continuation that takes an error itself.
RECURSIVE Unwind(_)
Unwind(s) ==
    IF s = <<>> \/ Head(s) = "auto_connect_result" THEN s ELSE Unwind(Tail(s))

\* return r: to the innermost continuation that takes it, or to the caller
\* of the public method.
Return(r) ==
    LET s == IF r = "Ok" THEN stack ELSE Unwind(stack) IN
    /\ pc' = IF s = <<>> THEN "idle" ELSE Head(s)
    /\ stack' = IF s = <<>> THEN <<>> ELSE Tail(s)
    /\ rv' = IF s = <<>> THEN "none" ELSE r
    /\ ret' = IF s = <<>> THEN r ELSE ret

Goto(l) ==
    /\ pc' = l
    /\ UNCHANGED <<stack, rv, ret>>

CallFn(entry, cont) ==
    /\ pc' = entry
    /\ stack' = <<cont>> \o stack
    /\ UNCHANGED <<rv, ret>>

\* A public method is called on the idle session: the bookkeeping of the
\* call starts afresh.
Invoke(o) ==
    /\ pc = "idle"
    /\ op' = o
    /\ rv' = "none"
    /\ h_cmd' = <<>>
    /\ h_wrote' = FALSE
    /\ h_start' = IF o \in {"measure_distance", "mod_measure_distance"}
                  THEN last_calibration ELSE <<>>
    /\ h_first' = "none"
    /\ h_reset' = <<>>
    /\ h_reads' = <<>>
    /\ h_recal' = FALSE
    /\ h_cal' = <<>>
    /\ h_word' = <<>>
    /\ range_args' = <<>>
    /\ range_log' = <<>>
    /\ h_raw' = <<>>
    /\ measurement' = <<>>
    /\ old_mode' = IF o = "set_detector_mode" THEN <<detector_mode>> ELSE <<>>
    /\ elapsed' = 0
    /\ command' = 0
    /\ status' = <<>>
    /\ message' = <<>>

\* i2c.write_register(REG_COMMAND, c) succeeded.
Wrote(c) ==
    /\ DeviceTakes(c)
    /\ h_cmd' = <<[cmd |-> c, status |-> dev_status]>>
    /\ h_wrote' = TRUE

\* The step wrote nothing to the command register.
NoCommand ==
    /\ h_cmd' = <<>>
    /\ UNCHANGED <<h_wrote, device>>

\* get_status_raw() succeeded: `let status = ..`
ReadStatus == status' = <<dev_status>>

Calibrated ==
    /\ is_calibrated' = TRUE
    /\ last_calibration' = <<0>>
    /\ h_cal' = <<dev_status>>

TimedOut == elapsed >= MaxPolls

(* --------------------- the session of src/src/radar.rs ---------------- *)

\* auto_connect is entered: attempt 1 of `for attempt in 1..=MAX_RETRIES`.
EnterAutoConnect(conts) ==
    /\ pc' = "connect_async"
    /\ stack' = <<"auto_connect_result">> \o conts
    /\ attempt' = 1
    /\ ret' = "pending"

\* A call that goes on at label l without entering auto_connect.
Enter(l) ==
    /\ pc' = l
    /\ attempt' = 0
    /\ ret' = "pending"
    /\ UNCHANGED stack

\* A call that returns at once.
Finish(r) ==
    /\ pc' = "idle"
    /\ attempt' = 0
    /\ ret' = r
    /\ UNCHANGED stack

\* `!is_calibrated || last_calibration.map_or(true, |t| t.elapsed() > 300 s)`
NeedsCalibration ==
    \/ ~is_calibrated
    \/ last_calibration = <<>>
    \/ last_calibration[1] > CALIBRATION_STALE_MINUTES

connect ==
    /\ Invoke("connect")
    /\ Enter("connect_status")
    /\ UNCHANGED <<session, device>>
    /\ UNCHANGED <<presence, firmware, components>>

connect_status ==
    /\ pc = "connect_status"
    /\ \E ok \in BOOLEAN :
          IF ok
          THEN ReadStatus /\ is_connected' = TRUE /\ Return("Ok")
          ELSE UNCHANGED <<status, is_connected>> /\ Return("NotConnected")
    /\ NoCommand
    /\ UNCHANGED <<is_calibrated, last_calibration, detector_mode, auto_reconnect,
                   op, attempt, elapsed, command, h_start, h_first, h_reset, h_reads, h_recal,
                   h_cal, h_word>>
    /\ UNCHANGED apart

disconnect ==
    /\ Invoke("disconnect")
    /\ IF is_connected THEN Enter("disconnect_command") ELSE Finish("Ok")
    /\ UNCHANGED <<session, device>>
    /\ UNCHANGED <<presence, firmware, components>>

\* disconnect with `self.send_command(CMD_DISABLE_DETECTOR)?`: a failed write
\* is returned and the session stays as it was.
disconnect_command_propagates ==
    /\ pc = "disconnect_command"
    /\ \E ok \in BOOLEAN :
          IF ok
          THEN Wrote(CMD_DISABLE_DETECTOR) /\ is_connected' = FALSE /\ Return("Ok")
          ELSE NoCommand /\ UNCHANGED is_connected /\ Return("I2c")
    /\ command' = CMD_DISABLE_DETECTOR
    /\ UNCHANGED <<is_calibrated, last_calibration, detector_mode, auto_reconnect,
                   op, attempt, elapsed, status, history>>
    /\ UNCHANGED apart

\* `let _ = self.send_command(CMD_DISABLE_DETECTOR); self.is_connected = false;`
\* command is the argument of send_command, whether the write succeeds or not.
disconnect_command ==
    /\ pc = "disconnect_command"
    /\ \E ok \in BOOLEAN :
          IF ok THEN Wrote(CMD_DISABLE_DETECTOR) ELSE NoCommand
    /\ command' = CMD_DISABLE_DETECTOR
    /\ is_connected' = FALSE
    /\ Return("Ok")
    /\ UNCHANGED <<is_calibrated, last_calibration, detector_mode, auto_reconnect,
                   op, attempt, elapsed, status, history>>
    /\ UNCHANGED apart

set_config ==
    /\ Invoke("set_config")
    /\ Finish("Ok")
    /\ \E m \in DetectorMode, a \in BOOLEAN :
          /\ detector_mode' = m
          /\ auto_reconnect' = a
    /\ UNCHANGED <<is_connected, is_calibrated, last_calibration, device>>
    /\ UNCHANGED <<presence, firmware, components>>

\* The first command configure_detector sends in each mode.
ConfigureCommand(mode) ==
    CASE mode = "Distance" -> CMD_APPLY_CONFIG_AND_CALIBRATE
      [] mode = "Presence" -> CMD_ENABLE_PRESENCE_DETECTOR
      [] mode = "Combined" -> CMD_APPLY_CONFIG_AND_CALIBRATE
      [] mode = "Breathing" -> CMD_BREATHING_APPLY_CONFIGURATION

set_detector_mode ==
    /\ Invoke("set_detector_mode")
    /\ \E mode \in DetectorMode :
          /\ detector_mode' = mode
          /\ IF is_connected /\ detector_mode # mode
             THEN Enter("configure_detector") ELSE Finish("Ok")
    /\ UNCHANGED <<is_connected, is_calibrated, last_calibration,
                   auto_reconnect, device>>
    /\ UNCHANGED <<presence, firmware, components>>

auto_connect ==
    /\ Invoke("auto_connect")
    /\ EnterAutoConnect(<<>>)
    /\ UNCHANGED <<session, device>>
    /\ UNCHANGED <<presence, firmware, components>>

connect_async ==
    /\ Invoke("connect_async")
    /\ Enter("connect_async")
    /\ UNCHANGED <<session, device>>
    /\ UNCHANGED <<presence, firmware, components>>

\* connect_async's status read: is_connected is set before the detector is
\* configured.
connect_async_status ==
    /\ pc = "connect_async"
    /\ \E ok \in BOOLEAN :
          IF ok
          THEN ReadStatus /\ is_connected' = TRUE /\ Goto("configure_detector")
          ELSE UNCHANGED <<status, is_connected>> /\ Return("NotConnected")
    /\ NoCommand
    /\ UNCHANGED <<is_calibrated, last_calibration, detector_mode, auto_reconnect,
                   op, attempt, elapsed, command, h_start, h_first, h_reset, h_reads, h_recal,
                   h_cal, h_word>>
    /\ UNCHANGED apart

\* configure_detector up to its first command: the configuration register
\* writes of the mode (none for Presence), then the command.
configure_detector ==
    /\ pc = "configure_detector"
    /\ \E ok \in BOOLEAN :
          IF ok
          THEN /\ Wrote(ConfigureCommand(detector_mode))
               /\ Goto(IF detector_mode = "Combined"
                       THEN "configure_detector_combined"
                       ELSE "wait_for_calibration")
          ELSE NoCommand /\ Return("I2c")
    /\ elapsed' = 0
    /\ UNCHANGED <<session, op, attempt, command, status, history>>
    /\ UNCHANGED apart

\* Combined: the second command.
configure_detector_combined ==
    /\ pc = "configure_detector_combined"
    /\ \E ok \in BOOLEAN :
          IF ok
          THEN Wrote(CMD_ENABLE_PRESENCE_DETECTOR) /\ Goto("wait_for_calibration")
          ELSE NoCommand /\ Return("I2c")
    /\ elapsed' = 0
    /\ UNCHANGED <<session, op, attempt, command, status, history>>
    /\ UNCHANGED apart

\* One iteration of wait_for_calibration's loop.
wait_for_calibration ==
    /\ pc = "wait_for_calibration"
    /\ NoCommand
    /\ \E ok \in BOOLEAN :
          IF ~ok THEN
              /\ Return("I2c")
              /\ UNCHANGED <<is_calibrated, last_calibration, h_cal, elapsed,
                             status>>
          ELSE
              /\ ReadStatus
              /\ IF \/ dev_status \cap STATUS_SENSOR_CALIBRATE_OK # {}
                    \/ dev_status = {0, 1, 2}
                 THEN Calibrated /\ Return("Ok") /\ UNCHANGED elapsed
                 ELSE /\ UNCHANGED <<is_calibrated, last_calibration, h_cal>>
                      /\ IF dev_status \cap STATUS_ERROR # {}
                         THEN Return("DeviceError") /\ UNCHANGED elapsed
                         ELSE IF TimedOut
                         THEN Return("Timeout") /\ UNCHANGED elapsed
                         ELSE Goto("wait_for_calibration")
                              /\ elapsed' = elapsed + 1
    /\ UNCHANGED <<is_connected, detector_mode, auto_reconnect, op, attempt,
                   command, h_start, h_first, h_reset, h_reads, h_recal, h_word>>
    /\ UNCHANGED apart

\* The next attempt of auto_connect's loop.
NextAttempt ==
    /\ attempt' = attempt + 1
    /\ pc' = "connect_async"
    /\ stack' = <<"auto_connect_result">> \o stack
    /\ rv' = "none"
    /\ UNCHANGED ret

\* auto_connect_result with the reset arm `Err(NotConnected)` lacking its
\* guard `if attempt == 1`.
auto_connect_result_any_attempt ==
    /\ pc = "auto_connect_result"
    /\ h_first' = IF attempt = 1 THEN rv ELSE h_first
    /\ h_cmd' = <<>>
    /\ IF rv = "Ok" THEN
           /\ Return("Ok")
           /\ UNCHANGED <<attempt, device, h_reset>>
       ELSE IF rv = "NotConnected" /\ attempt < MAX_RETRIES THEN
           /\ \E reset_ok \in BOOLEAN :
                 /\ h_reset' = Append(h_reset, reset_ok)
                 /\ IF reset_ok THEN DeviceReboots ELSE UNCHANGED device
           /\ NextAttempt
       ELSE IF attempt < MAX_RETRIES THEN
           /\ NextAttempt
           /\ UNCHANGED <<device, h_reset>>
       ELSE
           /\ Return(rv)
           /\ UNCHANGED <<attempt, device, h_reset>>
    /\ UNCHANGED <<session, op, elapsed, command, status, h_wrote, h_start,
                   h_reads, h_recal, h_cal, h_word>>
    /\ UNCHANGED apart

\* auto_connect's `match self.connect_async().await` on attempt `attempt`;
\* the hardware reset (the control script) either succeeds or fails.
auto_connect_result ==
    /\ pc = "auto_connect_result"
    /\ h_first' = IF attempt = 1 THEN rv ELSE h_first
    /\ h_cmd' = <<>>
    /\ IF rv = "Ok" THEN
           /\ Return("Ok")
           /\ UNCHANGED <<attempt, device, h_reset>>
       ELSE IF rv = "NotConnected" /\ attempt = 1 THEN
           /\ \E reset_ok \in BOOLEAN :
                 /\ h_reset' = Append(h_reset, reset_ok)
                 /\ IF reset_ok THEN DeviceReboots ELSE UNCHANGED device
           /\ NextAttempt
       ELSE IF attempt < MAX_RETRIES THEN
           /\ NextAttempt
           /\ UNCHANGED <<device, h_reset>>
       ELSE
           /\ Return(rv)
           /\ UNCHANGED <<attempt, device, h_reset>>
    /\ UNCHANGED <<session, op, elapsed, command, status, h_wrote, h_start, h_reads,
                   h_recal, h_cal, h_word>>
    /\ UNCHANGED apart

\* calibrate, step 4: the error_details pushed for the error bits of the
\* status, in the order of the `if`s.
Detail(word, mask, text) == IF word \cap mask # {} THEN <<text>> ELSE <<>>

error_details_every_step(word) ==
    <<"Sensor calibration failed", "Detector calibration failed",
      "Configuration creation failed", "Sensor creation failed",
      "Detector creation failed", "Configuration apply failed">>

error_details(word) ==
    Detail(word, STATUS_SENSOR_CALIBRATE_ERROR, "Sensor calibration failed")
    \o Detail(word, STATUS_DETECTOR_CALIBRATE_ERROR,
              "Detector calibration failed")
    \o Detail(word, STATUS_CONFIG_CREATE_ERROR,
              "Configuration creation failed")
    \o Detail(word, STATUS_SENSOR_CREATE_ERROR, "Sensor creation failed")
    \o Detail(word, STATUS_DETECTOR_CREATE_ERROR, "Detector creation failed")
    \o Detail(word, STATUS_CONFIG_APPLY_ERROR, "Configuration apply failed")

calibrate ==
    /\ Invoke("calibrate")
    /\ Enter("calibrate_initial_status")
    /\ UNCHANGED <<session, device>>
    /\ UNCHANGED <<presence, firmware, components>>

\* Step 1 of calibrate: the status must show neither busy nor an error.
calibrate_initial_status ==
    /\ pc = "calibrate_initial_status"
    /\ h_recal' = TRUE
    /\ NoCommand
    /\ \E ok \in BOOLEAN :
          IF ~ok THEN Return("I2c") /\ UNCHANGED status
          ELSE /\ ReadStatus
               /\ IF dev_status \cap STATUS_BUSY # {}
                  THEN Return("DeviceError")
                  ELSE IF dev_status \cap STATUS_ALL_ERROR_MASK # {}
                  THEN Return("DeviceError")
                  ELSE Goto("calibrate_range")
    /\ UNCHANGED <<session, op, attempt, elapsed, command, h_start, h_first, h_reset,
                   h_reads, h_cal, h_word>>
    /\ UNCHANGED apart

\* Step 2: the Start and End registers (Distance, Combined), their values
\* written with to_le_bytes.
calibrate_range ==
    /\ pc = "calibrate_range"
    /\ NoCommand
    /\ IF detector_mode \in {"Distance", "Combined"}
       THEN \E ok_start, ok_end \in BOOLEAN :
               /\ WroteRange(to_le_bytes(to_mm(start_m)),
                             to_le_bytes(to_mm(start_m + length_m)),
                             ok_start, ok_end)
               /\ IF ok_start /\ ok_end THEN Goto("calibrate_command")
                  ELSE Return("I2c")
       ELSE Goto("calibrate_command") /\ UNCHANGED distance_range
    /\ UNCHANGED <<session, op, locals, history>>
    /\ UNCHANGED <<presence, firmware, message, components, decoded, old_mode>>

\* Step 3: send_command(CMD_APPLY_CONFIG_AND_CALIBRATE).
calibrate_command ==
    /\ pc = "calibrate_command"
    /\ \E ok \in BOOLEAN :
          IF ok
          THEN Wrote(CMD_APPLY_CONFIG_AND_CALIBRATE) /\ Goto("calibrate_poll")
          ELSE NoCommand /\ Return("I2c")
    /\ elapsed' = 0
    /\ UNCHANGED <<session, op, attempt, command, status, history>>
    /\ UNCHANGED apart

\* Step 4: one iteration of the poll loop.
calibrate_poll ==
    /\ pc = "calibrate_poll"
    /\ NoCommand
    /\ \E ok \in BOOLEAN :
          IF ~ok THEN
              /\ Return("I2c")
              /\ UNCHANGED <<is_calibrated, last_calibration, h_cal, elapsed,
                             status, message>>
          ELSE
              /\ ReadStatus
              /\ IF dev_status \cap STATUS_BUSY # {} THEN
                     /\ IF TimedOut THEN Return("Timeout") /\ UNCHANGED elapsed
                        ELSE Goto("calibrate_poll") /\ elapsed' = elapsed + 1
                     /\ UNCHANGED <<is_calibrated, last_calibration, h_cal,
                                    message>>
                 ELSE IF dev_status \cap STATUS_ALL_ERROR_MASK # {} THEN
                     /\ Return("DeviceError")
                     /\ message' = error_details(dev_status)
                     /\ UNCHANGED <<is_calibrated, last_calibration, h_cal,
                                    elapsed>>
                 ELSE IF /\ dev_status \cap STATUS_SENSOR_CALIBRATE_OK # {}
                         /\ dev_status \cap STATUS_DETECTOR_CREATE_OK # {} THEN
                     /\ Calibrated
                     /\ Return("Ok")
                     /\ UNCHANGED <<elapsed, message>>
                 ELSE
                     /\ IF TimedOut THEN Return("Timeout") /\ UNCHANGED elapsed
                        ELSE Goto("calibrate_poll") /\ elapsed' = elapsed + 1
                     /\ UNCHANGED <<is_calibrated, last_calibration, h_cal,
                                    message>>
    /\ UNCHANGED <<is_connected, detector_mode, auto_reconnect, op, attempt,
                   command, h_start, h_first, h_reset, h_reads, h_recal, h_word>>
    /\ UNCHANGED <<presence, firmware, elsewhere>>

\* The opening of every measure_* method: auto_connect when not connected
\* and auto_reconnect is set.
EnterMeasurement(l) ==
    IF ~is_connected /\ auto_reconnect
    THEN EnterAutoConnect(<<l>>)
    ELSE Enter(l)

measure_distance ==
    /\ Invoke("measure_distance")
    /\ EnterMeasurement("measure_distance_connected")
    /\ UNCHANGED <<session, device>>
    /\ UNCHANGED <<presence, firmware, components>>

\* The connection check and the calibration check.
measure_distance_connected ==
    /\ pc = "measure_distance_connected"
    /\ NoCommand
    /\ IF ~is_connected THEN Return("NotConnected")
       ELSE IF NeedsCalibration
            THEN CallFn("calibrate_initial_status", "measure_distance_send")
            ELSE Goto("measure_distance_send")
    /\ UNCHANGED <<session, op, locals, history>>
    /\ UNCHANGED apart

\* send_command(CMD_MEASURE_DISTANCE)
measure_distance_send ==
    /\ pc = "measure_distance_send"
    /\ \E ok \in BOOLEAN :
          IF ok
          THEN Wrote(CMD_MEASURE_DISTANCE) /\ Goto("measure_distance_poll")
          ELSE NoCommand /\ Return("I2c")
    /\ elapsed' = 0
    /\ UNCHANGED <<session, op, attempt, command, status, history>>
    /\ UNCHANGED apart

\* One iteration of the wait for the measurement.
measure_distance_poll ==
    /\ pc = "measure_distance_poll"
    /\ NoCommand
    /\ \E ok \in BOOLEAN :
          IF ~ok THEN Return("I2c") /\ UNCHANGED <<elapsed, status>>
          ELSE /\ ReadStatus
               /\ IF dev_status \cap STATUS_MEASUREMENT_READY # {}
                  THEN Goto("read_distance_result") /\ UNCHANGED elapsed
                  ELSE IF dev_status \cap STATUS_ERROR # {}
                  THEN Return("MeasurementFailed") /\ UNCHANGED elapsed
                  ELSE IF TimedOut
                  THEN Return("Timeout") /\ UNCHANGED elapsed
                  ELSE Goto("measure_distance_poll") /\ elapsed' = elapsed + 1
    /\ UNCHANGED <<session, op, attempt, command, history>>
    /\ UNCHANGED apart

\* One iteration of read_distance_result's loop: the packed result word,
\* then either a calibration and the next iteration, or the peak registers
\* and the measurement.
read_distance_result ==
    /\ pc = "read_distance_result"
    /\ NoCommand
    /\ \E ok \in BOOLEAN, word \in ResultWords :
          IF ~ok THEN Return("I2c") /\ UNCHANGED h_word
          ELSE IF word \cap RESULT_CALIBRATION_NEEDED # {}
               THEN /\ CallFn("calibrate_initial_status", "read_distance_result")
                    /\ UNCHANGED h_word
               ELSE Return("Ok") /\ h_word' = <<word>>
    /\ UNCHANGED <<session, op, locals, h_start, h_first, h_reset, h_reads, h_recal,
                   h_cal>>
    /\ UNCHANGED apart

measure_presence ==
    /\ Invoke("measure_presence")
    /\ EnterMeasurement("measure_presence_connected")
    /\ UNCHANGED <<session, device>>
    /\ UNCHANGED <<presence, firmware, components>>

\* The connection check and the mode check.
measure_presence_connected ==
    /\ pc = "measure_presence_connected"
    /\ NoCommand
    /\ IF ~is_connected THEN Return("NotConnected")
       ELSE IF detector_mode \notin {"Presence", "Combined"}
            THEN Return("InvalidParameters")
            ELSE Goto("measure_presence_apply")
    /\ UNCHANGED <<session, op, locals, history>>
    /\ UNCHANGED apart

\* send_command(CMD_PRESENCE_APPLY_CONFIGURATION)
measure_presence_apply ==
    /\ pc = "measure_presence_apply"
    /\ \E ok \in BOOLEAN :
          IF ok
          THEN Wrote(CMD_PRESENCE_APPLY_CONFIGURATION)
               /\ Goto("measure_presence_start")
          ELSE NoCommand /\ Return("I2c")
    /\ UNCHANGED <<session, op, locals, history>>
    /\ UNCHANGED apart

\* send_command(CMD_PRESENCE_START)
measure_presence_start ==
    /\ pc = "measure_presence_start"
    /\ \E ok \in BOOLEAN :
          IF ok
          THEN Wrote(CMD_PRESENCE_START) /\ Goto("wait_for_measurement")
          ELSE NoCommand /\ Return("I2c")
    /\ elapsed' = 0
    /\ UNCHANGED <<session, op, attempt, command, status, history>>
    /\ UNCHANGED apart

\* One iteration of wait_for_measurement's loop.
wait_for_measurement ==
    /\ pc = "wait_for_measurement"
    /\ NoCommand
    /\ \E ok \in BOOLEAN :
          IF ~ok THEN Return("I2c") /\ UNCHANGED <<elapsed, status>>
          ELSE /\ ReadStatus
               /\ IF dev_status \cap STATUS_MEASUREMENT_READY # {}
                  THEN Goto("measure_presence_read") /\ UNCHANGED elapsed
                  ELSE IF dev_status \cap STATUS_ERROR # {}
                  THEN Return("DeviceError") /\ UNCHANGED elapsed
                  ELSE IF TimedOut
                  THEN Return("Timeout") /\ UNCHANGED elapsed
                  ELSE Goto("wait_for_measurement") /\ elapsed' = elapsed + 1
    /\ UNCHANGED <<session, op, attempt, command, history>>
    /\ UNCHANGED apart

\* The four presence result registers, then the detector-error bit.
measure_presence_read ==
    /\ pc = "measure_presence_read"
    /\ NoCommand
    /\ \E ok \in BOOLEAN, word \in PresenceWords, raw \in RawPresence :
          IF ~ok THEN Return("I2c") /\ UNCHANGED <<h_word, decoded>>
          ELSE IF word \cap RESULT_PRESENCE_DETECTOR_ERROR # {}
               THEN Return("DeviceError") /\ UNCHANGED <<h_word, decoded>>
               ELSE Return("Ok") /\ Measured(word, raw)
    /\ UNCHANGED <<session, op, locals, h_start, h_first, h_reset, h_reads, h_recal,
                   h_cal>>
    /\ UNCHANGED <<presence, firmware, message, components, distance_range, old_mode>>

measure_breathing ==
    /\ Invoke("measure_breathing")
    /\ EnterMeasurement("measure_breathing_start")
    /\ UNCHANGED <<session, device>>
    /\ UNCHANGED <<presence, firmware, components>>

\* send_command(CMD_BREATHING_START_APP)
measure_breathing_start ==
    /\ pc = "measure_breathing_start"
    /\ \E ok \in BOOLEAN :
          IF ok
          THEN Wrote(CMD_BREATHING_START_APP) /\ Goto("measure_breathing_poll")
          ELSE NoCommand /\ Return("I2c")
    /\ elapsed' = 0
    /\ UNCHANGED <<session, op, attempt, command, status, history>>
    /\ UNCHANGED apart

\* `while start_time.elapsed() < MEASUREMENT_TIMEOUT { .. }`: the loop ends
\* at the deadline as it does on a status that is not busy; then the
\* result, rate and app-state registers are read.
measure_breathing_poll ==
    /\ pc = "measure_breathing_poll"
    /\ NoCommand
    /\ IF TimedOut
       THEN Goto("measure_breathing_read") /\ UNCHANGED <<elapsed, status>>
       ELSE \E ok \in BOOLEAN :
          IF ~ok THEN Return("I2c") /\ UNCHANGED <<elapsed, status>>
          ELSE /\ ReadStatus
               /\ IF dev_status \cap STATUS_BUSY = {}
                  THEN Goto("measure_breathing_read") /\ UNCHANGED elapsed
                  ELSE Goto("measure_breathing_poll") /\ elapsed' = elapsed + 1
    /\ UNCHANGED <<session, op, attempt, command, history>>
    /\ UNCHANGED apart

measure_breathing_read ==
    /\ pc = "measure_breathing_read"
    /\ NoCommand
    /\ \E ok \in BOOLEAN, word \in ResultWords :
          IF ~ok THEN Return("I2c") /\ UNCHANGED h_word
          ELSE Return("Ok") /\ h_word' = <<word>>
    /\ UNCHANGED <<session, op, locals, h_start, h_first, h_reset, h_reads, h_recal,
                   h_cal>>
    /\ UNCHANGED apart

(* ------------------------------ the clock ----------------------------- *)

\* Time passes between two calls: the calibration is older at the next.
Tick ==
    /\ pc = "idle"
    /\ last_calibration # <<>>
    /\ \E m \in Ages :
          /\ m > last_calibration[1]
          /\ last_calibration' = <<m>>
    /\ UNCHANGED <<is_connected, is_calibrated, detector_mode, auto_reconnect,
                   pc, stack, op, ret, rv, locals, device, h_cmd, h_wrote,
                   history>>
    /\ UNCHANGED apart

(* --------------------------- specification ---------------------------- *)

\* XM125Radar::new with XM125Config::default(); the device as a previous
\* run may have left it.
\* DeviceManager::check_device_presence: the DeviceState it builds from
\* the answer of i2cdetect.
check_device_presence(present_on_bus) ==
    [is_present |-> present_on_bus,
     is_responsive |-> present_on_bus,
     firmware_type |-> <<>>,
     app_id |-> <<>>,
     needs_reset |-> ~present_on_bus]

Init ==
    /\ is_connected = FALSE
    /\ is_calibrated = FALSE
    /\ last_calibration = <<>>
    /\ detector_mode = "Distance"
    /\ auto_reconnect = TRUE
    /\ pc = "idle"
    /\ stack = <<>>
    /\ op = "new"
    /\ ret = "Ok"
    /\ rv = "none"
    /\ attempt = 0
    /\ elapsed = 0
    /\ command = 0
    /\ status = <<>>
    /\ dev_status \in {StatusAfterReset, StatusAfterError} \cup StatusAfterApply
    /\ dev_cmd = 0
    /\ dev_calibrated = (dev_status \in StatusAfterApply
                           /\ dev_status \cap STATUS_ALL_ERROR_MASK = {})
    /\ h_cmd = <<>>
    /\ h_wrote = FALSE
    /\ h_start = <<>>
    /\ h_first = "none"
    /\ h_reset = <<>>
    /\ h_reads = <<>>
    /\ h_recal = FALSE
    /\ h_cal = <<>>
    /\ h_word = <<>>
    /\ dev_regs = RegistersAfterReset
    /\ presence_range = "Long"
    /\ start_m = 100000
    /\ length_m = 2900000
    /\ auto_profile_enabled = TRUE
    /\ intra_detection_threshold = 1300
    /\ inter_detection_threshold = 1000
    /\ frame_rate = 12000
    /\ sensitivity = <<>>
    /\ todo = <<>>
    /\ h_log = <<>>
    /\ fw_pc = "idle"
    /\ fw_op = "new"
    /\ fw_type = "Distance"
    /\ fw_verify = FALSE
    /\ fw_ret = "Ok"
    /\ fw_log = <<>>
    /\ dev_app_id = 1
    /\ dev_bootloader = FALSE
    /\ current_app_id = 0
    /\ device_checksum = <<>>
    /\ binary_checksum = <<>>
    /\ fw_needed = FALSE
    /\ message = <<>>
    /\ initialized = FALSE
    /\ exported = {}
    /\ claimed = {}
    /\ direction = [p \in {"reset", "mcu_interrupt", "wake_up", "boot"} |-> "in"]
    /\ value = [p \in {"reset", "mcu_interrupt", "wake_up", "boot"} |-> "Low"]
    /\ gpio_pc = "idle"
    /\ gpio_op = "new"
    /\ gpio_ret = "Ok"
    /\ gpio_i = 1
    /\ gpio_log = <<>>
    /\ gpio_before = <<{}, [p \in {"reset", "mcu_interrupt", "wake_up", "boot"} |-> "in"]>>
    /\ gpio_again = FALSE
    /\ gpio_quiet = TRUE
    /\ range_args = <<>>
    /\ range_log = <<>>
    /\ h_raw = <<>>
    /\ measurement = <<>>
    /\ old_mode = <<>>
    /\ mon_pc = "idle"
    /\ mon_op = "new"
    /\ count = <<>>
    /\ measurement_count = 0
    /\ mon_ret = "Ok"
    /\ confirm = FALSE
    /\ dm_pc = "idle"
    /\ dm_ret = "Ok"
    /\ dm_state = check_device_presence(TRUE)
    /\ dm_target = "Distance"
    /\ dm_verify = FALSE

Next ==
    \/ connect \/ connect_status
    \/ disconnect \/ disconnect_command
    \/ set_config \/ set_detector_mode
    \/ auto_connect \/ connect_async \/ connect_async_status
    \/ configure_detector \/ configure_detector_combined
    \/ wait_for_calibration \/ auto_connect_result
    \/ calibrate \/ calibrate_initial_status \/ calibrate_range
    \/ calibrate_command
    \/ calibrate_poll
    \/ measure_distance \/ measure_distance_connected \/ measure_distance_send
    \/ measure_distance_poll \/ read_distance_result
    \/ measure_presence \/ measure_presence_connected \/ measure_presence_apply
    \/ measure_presence_start \/ wait_for_measurement \/ measure_presence_read
    \/ measure_breathing \/ measure_breathing_start \/ measure_breathing_poll
    \/ measure_breathing_read
    \/ DeviceComplete \/ Tick

Spec == Init /\ [][Next]_vars

\* The calls a distance measurement is made of, with a session that keeps
\* running its call and a device that finishes the command it is busy with.
NextMeasure ==
    \/ connect \/ connect_status
    \/ measure_distance \/ measure_distance_connected \/ measure_distance_send
    \/ measure_distance_poll \/ read_distance_result
    \/ connect_async_status \/ configure_detector \/ wait_for_calibration
    \/ auto_connect_result
    \/ calibrate_initial_status \/ calibrate_range \/ calibrate_command
    \/ calibrate_poll
    \/ DeviceComplete \/ Tick

SpecMeasure == Init /\ [][NextMeasure]_vars /\ WF_vars(NextMeasure)

(* ------ the modular session: src/src/radar/mod.rs, radar/distance.rs --- *)

\* src/src/radar/registers.rs: the busy flag is the top bit, the error mask
\* the OR of the per-step error bits and the detector-error bit.
STATUS_BUSY_MASK == {31}
STATUS_ERROR_MASK == (16..25) \cup {28}

mod_connect ==
    /\ Invoke("mod_connect")
    /\ Enter("mod_connect_status")
    /\ UNCHANGED <<session, device>>
    /\ UNCHANGED <<presence, firmware, components>>

\* connect: the first status read.
mod_connect_status ==
    /\ pc = "mod_connect_status"
    /\ NoCommand
    /\ \E ok \in BOOLEAN :
          /\ h_reads' = Append(h_reads, ok)
          /\ IF ok
             THEN ReadStatus /\ is_connected' = TRUE /\ Return("Ok")
             ELSE UNCHANGED <<status, is_connected>> /\ Goto("mod_connect_reset")
    /\ UNCHANGED <<is_calibrated, last_calibration, detector_mode, auto_reconnect,
                   op, attempt, elapsed, command, h_start, h_first, h_reset, h_recal,
                   h_cal, h_word>>
    /\ UNCHANGED apart

\* mod_connect_reset going on to the retry whether or not the reset worked.
mod_connect_reset_always_retries ==
    /\ pc = "mod_connect_reset"
    /\ h_cmd' = <<>>
    /\ \E reset_ok \in BOOLEAN :
          /\ h_reset' = Append(h_reset, reset_ok)
          /\ IF reset_ok THEN DeviceReboots ELSE UNCHANGED device
          /\ Goto("mod_connect_retry")
    /\ UNCHANGED <<session, op, locals, h_wrote, h_start, h_first, h_reads,
                   h_recal, h_cal, h_word>>
    /\ UNCHANGED apart

\* connect: reset_xm125_to_run_mode() over the GPIO pins succeeds or fails.
mod_connect_reset ==
    /\ pc = "mod_connect_reset"
    /\ h_cmd' = <<>>
    /\ \E reset_ok \in BOOLEAN :
          /\ h_reset' = Append(h_reset, reset_ok)
          /\ IF reset_ok
             THEN DeviceReboots /\ Goto("mod_connect_retry")
             ELSE UNCHANGED device /\ Return("NotConnected")
    /\ UNCHANGED <<session, op, locals, h_wrote, h_start, h_first, h_reads, h_recal,
                   h_cal, h_word>>
    /\ UNCHANGED apart

\* mod_connect_retry returning Ok without `self.is_connected = true`.
mod_connect_retry_unmarked ==
    /\ pc = "mod_connect_retry"
    /\ NoCommand
    /\ \E ok \in BOOLEAN :
          /\ h_reads' = Append(h_reads, ok)
          /\ IF ok
             THEN ReadStatus /\ Return("Ok")
             ELSE UNCHANGED status /\ Return("NotConnected")
    /\ UNCHANGED <<session, op, attempt, elapsed, command, h_start, h_first,
                   h_reset, h_recal, h_cal, h_word>>
    /\ UNCHANGED apart

\* connect: the status read after the reset.
mod_connect_retry ==
    /\ pc = "mod_connect_retry"
    /\ NoCommand
    /\ \E ok \in BOOLEAN :
          /\ h_reads' = Append(h_reads, ok)
          /\ IF ok
             THEN ReadStatus /\ is_connected' = TRUE /\ Return("Ok")
             ELSE UNCHANGED <<status, is_connected>> /\ Return("NotConnected")
    /\ UNCHANGED <<is_calibrated, last_calibration, detector_mode, auto_reconnect,
                   op, attempt, elapsed, command, h_start, h_first, h_reset, h_recal,
                   h_cal, h_word>>
    /\ UNCHANGED apart

mod_set_detector_mode ==
    /\ Invoke("mod_set_detector_mode")
    /\ Finish("Ok")
    /\ \E mode \in DetectorMode : detector_mode' = mode
    /\ UNCHANGED <<is_connected, is_calibrated, last_calibration,
                   auto_reconnect, device>>
    /\ UNCHANGED <<presence, firmware, components>>

mod_configure_distance_detector ==
    /\ Invoke("mod_configure_distance_detector")
    /\ Enter("configure_distance_detector")
    /\ UNCHANGED <<session, device>>
    /\ UNCHANGED <<presence, firmware, components>>

mod_measure_distance ==
    /\ Invoke("mod_measure_distance")
    /\ attempt' = 0
    /\ ret' = "pending"
    /\ IF detector_mode # "Distance" \/ ~is_calibrated
       THEN pc' = "configure_distance_detector" /\ stack' = <<"measure">>
       ELSE pc' = "measure" /\ stack' = <<>>
    /\ UNCHANGED <<session, device>>
    /\ UNCHANGED <<presence, firmware, components>>

\* DistanceDetector::configure_range: both registers written with
\* to_be_bytes.
distance_configure_range(ok_start, ok_end) ==
    WroteRange(to_be_bytes(to_mm(start_m)),
               to_be_bytes(to_mm(start_m + length_m)), ok_start, ok_end)

\* configure_distance_detector up to apply_config_and_calibrate: the mode,
\* the range and detector registers, then write_command_safe(..), the wait
\* and the error check.
configure_distance_detector ==
    /\ pc = "configure_distance_detector"
    /\ detector_mode' = "Distance"
    /\ h_recal' = TRUE
    /\ NoCommand
    /\ \E ok_start, ok_end, ok_detector \in BOOLEAN :
          /\ distance_configure_range(ok_start, ok_end)
          /\ IF ok_start /\ ok_end /\ ok_detector
             THEN /\ command' = CMD_APPLY_CONFIG_AND_CALIBRATE
                  /\ pc' = "write_command_safe"
                  /\ stack' = <<"wait_for_not_busy", "apply_config_and_calibrate">>
                                  \o stack
                  /\ UNCHANGED <<rv, ret>>
             ELSE Return("I2c") /\ UNCHANGED command
    /\ UNCHANGED <<is_connected, is_calibrated, last_calibration, auto_reconnect,
                   op, attempt, elapsed, status, h_start, h_first, h_reset, h_reads,
                   h_cal, h_word>>
    /\ UNCHANGED <<presence, firmware, message, components, decoded, old_mode>>

\* write_command_safe: `if self.is_busy()? { wait_for_not_busy(5 s) }`
write_command_safe ==
    /\ pc = "write_command_safe"
    /\ NoCommand
    /\ elapsed' = 0
    /\ \E ok \in BOOLEAN :
          IF ~ok THEN Return("I2c") /\ UNCHANGED status
          ELSE /\ ReadStatus
               /\ IF dev_status \cap STATUS_BUSY_MASK # {}
                  THEN CallFn("wait_for_not_busy", "has_errors")
                  ELSE Goto("has_errors")
    /\ UNCHANGED <<session, op, attempt, command, history>>
    /\ UNCHANGED apart

\* One turn of wait_for_not_busy's `while start.elapsed() < timeout`.
wait_for_not_busy ==
    /\ pc = "wait_for_not_busy"
    /\ NoCommand
    /\ IF TimedOut
       THEN Return("Timeout") /\ UNCHANGED <<elapsed, status>>
       ELSE \E ok \in BOOLEAN :
          IF ~ok THEN Return("I2c") /\ UNCHANGED <<elapsed, status>>
          ELSE /\ ReadStatus
               /\ IF dev_status \cap STATUS_BUSY_MASK = {}
                  THEN Return("Ok") /\ elapsed' = 0
                  ELSE Goto("wait_for_not_busy") /\ elapsed' = elapsed + 1
    /\ UNCHANGED <<session, op, attempt, command, history>>
    /\ UNCHANGED apart

\* write_command_safe: `if self.has_errors()? && command != CMD_RESET_MODULE`
has_errors ==
    /\ pc = "has_errors"
    /\ NoCommand
    /\ \E ok \in BOOLEAN :
          IF ~ok THEN Return("I2c") /\ UNCHANGED status
          ELSE /\ ReadStatus
               /\ IF /\ dev_status \cap STATUS_ERROR_MASK # {}
                     /\ command # CMD_RESET_MODULE
                  THEN Goto("reset_module")
                  ELSE Goto("write_command")
    /\ UNCHANGED <<session, op, attempt, elapsed, command, history>>
    /\ UNCHANGED apart

\* reset_module: the reset command, then a sleep of 500 ms.
reset_module ==
    /\ pc = "reset_module"
    /\ \E ok \in BOOLEAN :
          IF ok
          THEN Wrote(CMD_RESET_MODULE) /\ Goto("write_command")
          ELSE NoCommand /\ Return("I2c")
    /\ UNCHANGED <<session, op, locals, history>>
    /\ UNCHANGED apart

\* write_command_safe: the write of the command itself.
write_command ==
    /\ pc = "write_command"
    /\ \E ok \in BOOLEAN :
          IF ok THEN Wrote(command) /\ Return("Ok")
          ELSE NoCommand /\ Return("I2c")
    /\ elapsed' = 0
    /\ UNCHANGED <<session, op, attempt, command, status, history>>
    /\ UNCHANGED apart

\* apply_config_and_calibrate after its wait: has_errors(), and on Ok the
\* end of configure_distance_detector.
apply_config_and_calibrate ==
    /\ pc = "apply_config_and_calibrate"
    /\ NoCommand
    /\ \E ok \in BOOLEAN :
          IF ~ok THEN
              /\ Return("I2c")
              /\ UNCHANGED <<status, is_calibrated, last_calibration, h_cal>>
          ELSE
              /\ ReadStatus
              /\ IF dev_status \cap STATUS_ERROR_MASK # {}
                 THEN /\ Return("DeviceError")
                      /\ UNCHANGED <<is_calibrated, last_calibration, h_cal>>
                 ELSE Calibrated /\ Return("Ok")
    /\ UNCHANGED <<is_connected, detector_mode, auto_reconnect, op, attempt,
                   elapsed, command, h_start, h_first, h_reset, h_reads, h_recal,
                   h_word>>
    /\ UNCHANGED apart

\* DistanceDetector::measure: write_command_safe(CMD_MEASURE_DISTANCE), the
\* wait, then the reads.
measure ==
    /\ pc = "measure"
    /\ NoCommand
    /\ command' = CMD_MEASURE_DISTANCE
    /\ pc' = "write_command_safe"
    /\ stack' = <<"wait_for_not_busy", "measure_read">> \o stack
    /\ UNCHANGED <<session, op, rv, ret, attempt, elapsed, status, history>>
    /\ UNCHANGED apart

\* DistanceDetector::measure: the result and strength registers; the result
\* word is taken as the distance in millimetres.
measure_read ==
    /\ pc = "measure_read"
    /\ NoCommand
    /\ \E ok \in BOOLEAN, word \in ResultWords :
          IF ~ok THEN Return("I2c") /\ UNCHANGED h_word
          ELSE Return("Ok") /\ h_word' = <<word>>
    /\ UNCHANGED <<session, op, locals, h_start, h_first, h_reset, h_reads, h_recal,
                   h_cal>>
    /\ UNCHANGED apart

NextMod ==
    \/ mod_connect \/ mod_connect_status \/ mod_connect_reset
    \/ mod_connect_retry
    \/ mod_set_detector_mode
    \/ mod_configure_distance_detector \/ mod_measure_distance
    \/ configure_distance_detector
    \/ write_command_safe \/ wait_for_not_busy \/ has_errors \/ reset_module
    \/ write_command
    \/ apply_config_and_calibrate
    \/ measure \/ measure_read
    \/ DeviceComplete \/ Tick

SpecMod == Init /\ [][NextMod]_vars

(* ---- the presence detector: src/src/radar/presence.rs, radar/mod.rs ---- *)

\* Commands of radar/registers.rs, with the values of the same commands in
\* radar.rs.
CMD_PRESENCE_RESET_MODULE == CMD_RESET_MODULE
CMD_PRESENCE_START_DETECTOR == CMD_PRESENCE_START

\* configuration_ok: `status & 0x10000000`
CONFIGURATION_ERROR_BIT == {28}

PresenceRange == {"Short", "Medium", "Long"}

presence_config == <<presence_range, start_m, length_m, auto_profile_enabled,
                     intra_detection_threshold, inter_detection_threshold,
                     frame_rate>>

\* The thresholds and the frame rate as configure_thresholds scales them,
\* `(x * 1000.0) as u32`.
intra_threshold_scaled == intra_detection_threshold
inter_threshold_scaled == inter_detection_threshold
frame_rate_scaled == frame_rate

\* `calculated.clamp(12, 120)`
Clamp(x, lo, hi) == IF x < lo THEN lo ELSE IF x > hi THEN hi ELSE x

\* calculate_optimal_profile with `<` for `<=`.
calculate_optimal_profile_below(end_mm) ==
    IF end_mm < 700 THEN 1
    ELSE IF end_mm < 2000 THEN 2
    ELSE IF end_mm < 3500 THEN 3
    ELSE IF end_mm < 6000 THEN 4
    ELSE 5

\* calculate_optimal_profile: the table on `end_mm as f32 / 1000.0`.
calculate_optimal_profile(end_mm) ==
    IF end_mm <= 700 THEN 1
    ELSE IF end_mm <= 2000 THEN 2
    ELSE IF end_mm <= 3500 THEN 3
    ELSE IF end_mm <= 6000 THEN 4
    ELSE 5

\* calculate_optimal_step_length: `(max_range_m * 1000.0 / 60.0) as u32`,
\* clamped.
calculate_optimal_step_length(end_mm) == Clamp(end_mm \div 60, 12, 120)

\* The preset of a PresenceRange, in millimetres.
PresetRange(range) ==
    CASE range = "Short" -> <<60, 700>>
      [] range = "Medium" -> <<200, 2000>>
      [] range = "Long" -> <<300, 5500>>

\* (final_start_mm, final_end_mm): the custom range when start_m and
\* length_m are both positive, the preset otherwise.
FinalRange ==
    IF start_m > 0 /\ length_m > 0
    THEN <<to_mm(start_m), to_mm(start_m + length_m)>>
    ELSE PresetRange(presence_range)

\* configure_range: (optimal_profile, optimal_step_length) of the range used.
configure_range ==
    <<calculate_optimal_profile(FinalRange[2]),
      calculate_optimal_step_length(FinalRange[2])>>

Reg(r, v) == [reg |-> r, val |-> v]

\* The registers configure_thresholds writes, in its order.
ThresholdWrites ==
    <<Reg("start", FinalRange[1]), Reg("end", FinalRange[2])>>
    \o (IF auto_profile_enabled
        THEN <<Reg("auto_profile", 1), Reg("auto_step_length", 1)>>
        ELSE <<Reg("auto_profile", 0), Reg("auto_step_length", 0),
               Reg("manual_profile", configure_range[1]),
               Reg("manual_step_length", configure_range[2])>>)
    \o <<Reg("auto_subsweeps", 1), Reg("hwaas", 32),
         Reg("signal_quality", 20000),
         Reg("intra_detection_threshold", intra_threshold_scaled),
         Reg("inter_detection_threshold", inter_threshold_scaled),
         Reg("frame_rate", frame_rate_scaled)>>

\* The registers apply_complete_configuration writes after the reset, in
\* its order.
ApplyWrites ==
    <<Reg("auto_profile", 0), Reg("auto_step_length", 0),
      Reg("manual_profile", IF FinalRange[2] >= 6500 THEN 5 ELSE 4),
      Reg("manual_step_length", Clamp(FinalRange[2] \div 60, 12, 120)),
      Reg("signal_quality", 20000),
      Reg("start", FinalRange[1]), Reg("end", FinalRange[2])>>

\* Entries of the log of the running presence sequence.
CommandEvent(c) == [ev |-> "command", reg |-> "", val |-> c, st |-> {}]
RegisterEvent(r, v) == [ev |-> "register", reg |-> r, val |-> v, st |-> {}]
StatusEvent(w) == [ev |-> "status", reg |-> "", val |-> 0, st |-> w]

\* i2c.write_register(PRESENCE_REG_COMMAND_ADDRESS, c) succeeded.
PresenceWrote(c) ==
    /\ Wrote(c)
    /\ h_log' = Append(h_log, CommandEvent(c))

\* i2c.write_register(<configuration register r>, v) succeeded.
WroteRegister(r, v) ==
    /\ dev_regs' = [dev_regs EXCEPT ![r] = v]
    /\ h_cmd' = <<>>
    /\ h_log' = Append(h_log, RegisterEvent(r, v))
    /\ UNCHANGED <<h_wrote, dev_status, dev_cmd, dev_calibrated>>

\* i2c.read_register(PRESENCE_REG_DETECTOR_STATUS_ADDRESS, 4) succeeded.
PresenceReadStatus ==
    /\ ReadStatus
    /\ NoCommand
    /\ h_log' = Append(h_log, StatusEvent(dev_status))

\* A bus transaction of the presence sequence failed: `?`
PresenceBusError ==
    /\ NoCommand
    /\ Return("I2c")
    /\ UNCHANGED h_log

\* The next register write of the running function, which writes the
\* registers of list in turn; at label next when the last one is made.
WriteNext(list, next) ==
    LET rest == IF todo = <<>> THEN list ELSE todo IN
    /\ \E ok \in BOOLEAN :
          IF ok
          THEN /\ WroteRegister(Head(rest).reg, Head(rest).val)
               /\ todo' = Tail(rest)
               /\ Goto(IF Tail(rest) = <<>> THEN next ELSE pc)
          ELSE PresenceBusError /\ todo' = <<>>
    /\ UNCHANGED <<elapsed, command, status>>

\* What a step of the presence sequence leaves alone.
PresenceFrame ==
    UNCHANGED <<session, op, attempt, history, presence_config, sensitivity, firmware, elsewhere,
                message>>

\* The caller that created the session assigns its public field `config`
\* before the first call.
set_presence_config ==
    /\ op = "new"
    /\ Invoke("set_presence_config")
    /\ Finish("Ok")
    /\ presence_range' \in PresenceRange
    /\ \E r \in {<<100000, 2900000>>, <<500000, 6500000>>, <<0, 2000000>>} :
          start_m' = r[1] /\ length_m' = r[2]
    /\ auto_profile_enabled' \in BOOLEAN
    /\ UNCHANGED <<session, device, intra_detection_threshold,
                   inter_detection_threshold, frame_rate, sensitivity, todo,
                   h_log, firmware, components>>

\* configure_presence_range / configure_presence_detector: the mode, the
\* range parameters, then configure_thresholds.
ConfigurePresence ==
    /\ detector_mode' = "Presence"
    /\ todo' = <<>>
    /\ UNCHANGED <<is_connected, is_calibrated, last_calibration,
                   auto_reconnect, device, presence_config, sensitivity, firmware,
                   components>>

configure_presence_range ==
    /\ Invoke("configure_presence_range")
    /\ Enter("configure_thresholds")
    /\ ConfigurePresence
    /\ h_log' = <<>>

\* measure_presence of radar/mod.rs
mod_measure_presence ==
    /\ Invoke("mod_measure_presence")
    /\ attempt' = 0
    /\ ret' = "pending"
    /\ IF detector_mode # "Presence"
       THEN /\ pc' = "configure_presence_detector"
            /\ stack' = <<"start_presence_detector", "presence_measure">>
       ELSE pc' = "presence_measure" /\ stack' = <<>>
    /\ h_log' = <<>>
    /\ UNCHANGED <<session, device, presence_config, sensitivity, todo, firmware, components>>

configure_presence_detector ==
    /\ pc = "configure_presence_detector"
    /\ Goto("configure_thresholds")
    /\ ConfigurePresence
    /\ h_cmd' = <<>>
    /\ UNCHANGED <<op, locals, h_wrote, history, h_log, message,
                   call_history>>

\* One write_register of configure_thresholds; after the last one
\* apply_complete_configuration is called.
configure_thresholds ==
    /\ pc = "configure_thresholds"
    /\ WriteNext(ThresholdWrites, "apply_complete_configuration")
    /\ PresenceFrame

\* apply_complete_configuration: reset_module(), then the wait for the
\* reset to complete.
apply_complete_configuration ==
    /\ pc = "apply_complete_configuration"
    /\ \E ok \in BOOLEAN :
          IF ok
          THEN /\ PresenceWrote(CMD_PRESENCE_RESET_MODULE)
               /\ CallFn("presence_wait_for_not_busy", "apply_registers")
          ELSE PresenceBusError
    /\ elapsed' = 0
    /\ UNCHANGED <<command, status, todo>>
    /\ PresenceFrame

\* One turn of `while start.elapsed() < timeout` in the wait_for_not_busy
\* of presence.rs.
presence_wait_for_not_busy ==
    /\ pc = "presence_wait_for_not_busy"
    /\ IF TimedOut
       THEN /\ NoCommand
            /\ Return("Timeout")
            /\ UNCHANGED <<elapsed, status, h_log>>
       ELSE \E ok \in BOOLEAN :
          IF ~ok THEN PresenceBusError /\ UNCHANGED <<elapsed, status>>
          ELSE /\ PresenceReadStatus
               /\ IF dev_status \cap STATUS_BUSY_MASK = {}
                  THEN Return("Ok") /\ elapsed' = 0
                  ELSE Goto("presence_wait_for_not_busy")
                       /\ elapsed' = elapsed + 1
    /\ UNCHANGED <<command, todo>>
    /\ PresenceFrame

\* apply_complete_configuration without the register writes after the
\* reset.
apply_registers_skipped ==
    /\ pc = "apply_registers"
    /\ NoCommand
    /\ Goto("apply_command")
    /\ UNCHANGED <<elapsed, command, status, todo, h_log>>
    /\ PresenceFrame

\* apply_complete_configuration: one write_register of those made after the
\* reset (auto profile off, manual profile, step length, signal quality,
\* start, end).
apply_registers ==
    /\ pc = "apply_registers"
    /\ WriteNext(ApplyWrites, "apply_command")
    /\ PresenceFrame

\* apply_complete_configuration: CMD_PRESENCE_APPLY_CONFIGURATION, then the
\* wait for the configuration to complete.
apply_command ==
    /\ pc = "apply_command"
    /\ \E ok \in BOOLEAN :
          IF ok
          THEN /\ PresenceWrote(CMD_PRESENCE_APPLY_CONFIGURATION)
               /\ CallFn("presence_wait_for_not_busy", "configuration_ok")
          ELSE PresenceBusError
    /\ elapsed' = 0
    /\ UNCHANGED <<command, status, todo>>
    /\ PresenceFrame

\* apply_complete_configuration: `if !self.configuration_ok()? { Err(..) }`
configuration_ok ==
    /\ pc = "configuration_ok"
    /\ \E ok \in BOOLEAN :
          IF ~ok THEN PresenceBusError /\ UNCHANGED status
          ELSE /\ PresenceReadStatus
               /\ IF dev_status \cap CONFIGURATION_ERROR_BIT # {}
                  THEN Return("DeviceError")
                  ELSE Goto("start_command")
    /\ UNCHANGED <<elapsed, command, todo>>
    /\ PresenceFrame

\* apply_complete_configuration: CMD_PRESENCE_START_DETECTOR, then Ok(()).
start_command ==
    /\ pc = "start_command"
    /\ \E ok \in BOOLEAN :
          IF ok
          THEN PresenceWrote(CMD_PRESENCE_START_DETECTOR) /\ Return("Ok")
          ELSE PresenceBusError
    /\ UNCHANGED <<elapsed, command, status, todo>>
    /\ PresenceFrame

\* start_presence_detector -> start_detector: write_command_safe(START),
\* wait_for_not_busy, has_errors.
start_presence_detector ==
    /\ pc = "start_presence_detector"
    /\ NoCommand
    /\ command' = CMD_PRESENCE_START_DETECTOR
    /\ pc' = "presence_write_command_safe"
    /\ stack' = <<"presence_wait_for_not_busy", "start_detector">> \o stack
    /\ UNCHANGED <<rv, ret, elapsed, status, todo, h_log>>
    /\ PresenceFrame

\* write_command_safe of presence.rs: `if self.is_busy()? { .. }`
presence_write_command_safe ==
    /\ pc = "presence_write_command_safe"
    /\ elapsed' = 0
    /\ \E ok \in BOOLEAN :
          IF ~ok THEN PresenceBusError /\ UNCHANGED status
          ELSE /\ PresenceReadStatus
               /\ IF dev_status \cap STATUS_BUSY_MASK # {}
                  THEN CallFn("presence_wait_for_not_busy",
                              "presence_has_errors")
                  ELSE Goto("presence_has_errors")
    /\ UNCHANGED <<command, todo>>
    /\ PresenceFrame

\* write_command_safe of presence.rs:
\* `if self.has_errors()? && command != CMD_RESET_MODULE`
presence_has_errors ==
    /\ pc = "presence_has_errors"
    /\ \E ok \in BOOLEAN :
          IF ~ok THEN PresenceBusError /\ UNCHANGED status
          ELSE /\ PresenceReadStatus
               /\ IF /\ dev_status \cap STATUS_ERROR_MASK # {}
                     /\ command # CMD_RESET_MODULE
                  THEN Goto("presence_reset_module")
                  ELSE Goto("presence_write_command")
    /\ UNCHANGED <<elapsed, command, todo>>
    /\ PresenceFrame

\* reset_module of presence.rs: the reset command, then a sleep of 200 ms.
presence_reset_module ==
    /\ pc = "presence_reset_module"
    /\ \E ok \in BOOLEAN :
          IF ok
          THEN /\ PresenceWrote(CMD_PRESENCE_RESET_MODULE)
               /\ Goto("presence_write_command")
          ELSE PresenceBusError
    /\ UNCHANGED <<elapsed, command, status, todo>>
    /\ PresenceFrame

\* write_command_safe of presence.rs: the write of the command itself.
presence_write_command ==
    /\ pc = "presence_write_command"
    /\ \E ok \in BOOLEAN :
          IF ok THEN PresenceWrote(command) /\ Return("Ok")
          ELSE PresenceBusError
    /\ elapsed' = 0
    /\ UNCHANGED <<command, status, todo>>
    /\ PresenceFrame

\* start_detector after its wait: `if self.has_errors()? { Err(..) }`
start_detector ==
    /\ pc = "start_detector"
    /\ \E ok \in BOOLEAN :
          IF ~ok THEN PresenceBusError /\ UNCHANGED status
          ELSE /\ PresenceReadStatus
               /\ IF dev_status \cap STATUS_ERROR_MASK # {}
                  THEN Return("DeviceError")
                  ELSE Return("Ok")
    /\ UNCHANGED <<elapsed, command, todo>>
    /\ PresenceFrame

\* measure of presence.rs: the result, distance and score registers are
\* read and decoded.
presence_measure ==
    /\ pc = "presence_measure"
    /\ NoCommand
    /\ \E ok \in BOOLEAN, word \in PresenceWords, raw \in RawPresence :
          IF ~ok THEN Return("I2c") /\ UNCHANGED <<h_word, decoded>>
          ELSE Return("Ok") /\ Measured(word, raw)
    /\ UNCHANGED <<session, op, locals, h_start, h_first, h_reset, h_reads,
                   h_recal, h_cal, presence, firmware, components,
                   distance_range, old_mode, message>>

(* ------------- configure_presence_parameters of src/src/config.rs ------ *)

\* Arguments of configure_presence_parameters: Option values, ranges in
\* micrometres, sensitivity in tenths, frame rate in thousandths of a hertz.
RangeArgs == {<<>>, <<"Short">>, <<"Medium">>}
MinMaxArgs == {<<>>, <<500000, 7000000>>, <<3000000, 1000000>>}
SensitivityArgs == {<<>>, <<0>>, <<1>>, <<50>>, <<60>>}
FrameRateArgs == {<<>>, <<12000>>, <<70000>>}
ProfileMode == {"Auto", "Manual"}

\* `(0.1..=5.0).contains(&sens)`
sensitivity_ok(sens) == 1 <= sens /\ sens <= 50

\* handle_presence_command calls it once, on the session the program has
\* made.  The fields are assigned as the function goes; what it has
\* assigned when a check fails stays assigned.
configure_presence_parameters ==
    /\ op = "new"
    /\ Invoke("configure_presence_parameters")
    /\ \E range \in RangeArgs, minmax \in MinMaxArgs, sens \in SensitivityArgs,
          rate \in FrameRateArgs, profile \in ProfileMode :
          LET bad_range == minmax # <<>> /\ minmax[1] >= minmax[2]
              bad_sens == sens # <<>> /\ ~sensitivity_ok(sens[1])
              bad_rate == rate # <<>> /\ ~(1000 <= rate[1] /\ rate[1] <= 60000)
              past_range == ~bad_range
              past_sens == past_range /\ ~bad_sens
              past_rate == past_sens /\ ~bad_rate
          IN  /\ sensitivity' = sens
              /\ presence_range' = IF range # <<>> THEN range[1] ELSE presence_range
              /\ start_m' = IF past_range /\ minmax # <<>> THEN minmax[1] ELSE start_m
              /\ length_m' = IF past_range /\ minmax # <<>>
                             THEN minmax[2] - minmax[1] ELSE length_m
              /\ intra_detection_threshold' =
                     IF past_sens /\ sens # <<>> THEN sens[1] * 100000
                     ELSE intra_detection_threshold
              /\ inter_detection_threshold' =
                     IF past_sens /\ sens # <<>> THEN sens[1] * 80000
                     ELSE inter_detection_threshold
              /\ frame_rate' = IF past_rate /\ rate # <<>> THEN rate[1] ELSE frame_rate
              /\ auto_profile_enabled' =
                     IF past_rate THEN profile = "Auto" ELSE auto_profile_enabled
              /\ IF past_rate
                 THEN Enter("configure_thresholds") /\ detector_mode' = "Presence"
                 ELSE Finish("DeviceError") /\ UNCHANGED detector_mode
    /\ todo' = <<>>
    /\ h_log' = <<>>
    /\ UNCHANGED <<is_connected, is_calibrated, last_calibration,
                   auto_reconnect, device, firmware, components>>

NextConfig ==
    \/ configure_presence_parameters
    \/ configure_thresholds
    \/ apply_complete_configuration \/ presence_wait_for_not_busy
    \/ apply_registers \/ apply_command \/ configuration_ok \/ start_command
    \/ DeviceComplete

SpecConfig == Init /\ [][NextConfig]_vars

(* ---------- the distance range: src/src/config.rs, radar/distance.rs ---- *)

\* "start:end" arguments of configure_distance_range as (start, end) in
\* micrometres: whole millimetres, fractions of a millimetre on both sides
\* of the half, "0.251" (whose f32 lies below 0.251), and an empty range.
RangeStrings ==
    {<<100000, 3000000>>, <<0, 500400>>, <<1500, 2500>>, <<250999, 1000600>>,
     <<180000, 2999999>>, <<3000000, 1000000>>}

\* configure_distance_range: `if start >= end { return Err(DeviceError) }`,
\* then start_m = start and length_m = end - start.
configure_distance_range ==
    /\ Invoke("configure_distance_range")
    /\ \E r \in RangeStrings :
          IF r[1] >= r[2]
          THEN Finish("DeviceError") /\ UNCHANGED <<start_m, length_m>>
          ELSE /\ Finish("Ok")
               /\ start_m' = r[1]
               /\ length_m' = r[2] - r[1]
    /\ UNCHANGED <<session, device, presence_range, auto_profile_enabled,
                   intra_detection_threshold, inter_detection_threshold,
                   frame_rate, sensitivity, todo, h_log, firmware, components>>

\* The range is set by the command line, then written by the session of
\* radar/mod.rs (configure_distance_detector) or of radar.rs (calibrate).
NextRange ==
    \/ configure_distance_range
    \/ mod_configure_distance_detector \/ configure_distance_detector
    \/ write_command_safe \/ wait_for_not_busy \/ has_errors \/ reset_module
    \/ write_command \/ apply_config_and_calibrate
    \/ calibrate \/ calibrate_initial_status \/ calibrate_range
    \/ calibrate_command \/ calibrate_poll
    \/ DeviceComplete

SpecRange == Init /\ [][NextRange]_vars

NextPresence ==
    \/ set_presence_config \/ mod_set_detector_mode
    \/ configure_presence_range \/ mod_measure_presence
    \/ configure_presence_detector \/ configure_thresholds
    \/ apply_complete_configuration \/ presence_wait_for_not_busy
    \/ apply_registers \/ apply_command \/ configuration_ok \/ start_command
    \/ start_presence_detector \/ presence_write_command_safe
    \/ presence_has_errors \/ presence_reset_module \/ presence_write_command
    \/ start_detector \/ presence_measure
    \/ DeviceComplete

SpecPresence == Init /\ [][NextPresence]_vars

(* ------------- the firmware manager of src/src/firmware.rs ------------- *)

FirmwareType == {"Distance", "Presence", "Breathing"}

\* FirmwareType::application_id
application_id(t) ==
    CASE t = "Distance" -> 1
      [] t = "Presence" -> 2
      [] t = "Breathing" -> 3

\* Application ids the device can report: the three applications, and 0
\* for an image that is none of them.
AppIds == 0 .. 3

\* MD5 digests, as many as it takes for two of them to differ.
Checksums == {"md5_a", "md5_b"}

\* Result<String>: <<>> for Err, <<c>> for Ok(c)
ChecksumResult == {<<>>} \cup {<<c>> : c \in Checksums}

\* What the firmware manager leaves alone: it holds no radar session (the
\* one verify_firmware makes is temporary).
radar_session == <<session, pc, stack, op, ret, rv, locals, device, h_cmd,
                   h_wrote, history, presence, message>>
update_needed == <<current_app_id, device_checksum, binary_checksum, fw_needed>>

\* A public method is called on the idle manager: the bookkeeping of the
\* call starts afresh.
FwInvoke(o, t, v) ==
    /\ fw_pc = "idle"
    /\ fw_op' = o
    /\ fw_type' = t
    /\ fw_verify' = v
    /\ fw_log' = <<>>
    /\ UNCHANGED <<dev_app_id, dev_bootloader, radar_session, gpio, monitor,
                   erase, call_history>>

\* update_firmware_with_verification(firmware_type, verify) is entered.
FwCall(o, t, v) ==
    /\ FwInvoke(o, t, v)
    /\ fw_pc' = "check_control_script"
    /\ fw_ret' = "pending"
    /\ current_app_id' = 0
    /\ device_checksum' = <<>>
    /\ binary_checksum' = <<>>
    /\ fw_needed' = FALSE

FwReturn(r) ==
    /\ fw_pc' = "idle"
    /\ fw_ret' = r

FwGoto(l) ==
    /\ fw_pc' = l
    /\ UNCHANGED fw_ret

\* Command::new(program) ran and exited with success or not (an error of
\* .output() itself is returned the same way as a failing exit status).
Ran(program, success) ==
    fw_log' = Append(fw_log, [program |-> program, success |-> success])

\* `self.update_firmware_with_verification(firmware_type, false).await`
update_firmware ==
    /\ fw_pc = "idle"
    /\ \E t \in FirmwareType : FwCall("update_firmware", t, FALSE)
    /\ UNCHANGED manager

update_firmware_with_verification ==
    /\ fw_pc = "idle"
    /\ \E t \in FirmwareType, verify \in BOOLEAN :
          FwCall("update_firmware_with_verification", t, verify)
    /\ UNCHANGED manager

\* `self.check_control_script()?`
check_control_script ==
    /\ fw_pc = "check_control_script"
    /\ \E exists \in BOOLEAN, executable \in BOOLEAN :
          IF exists /\ executable
          THEN FwGoto("binary_exists")
          ELSE FwReturn("FirmwareError")
    /\ UNCHANGED <<fw_op, fw_type, fw_verify, fw_log, dev_app_id, dev_bootloader,
                   update_needed, radar_session, elsewhere>>

\* `if !Path::new(&binary_path).exists() { return Err(DeviceError) }`
binary_exists ==
    /\ fw_pc = "binary_exists"
    /\ \E exists \in BOOLEAN :
          IF exists
          THEN FwGoto("enter_bootloader_mode")
          ELSE FwReturn("DeviceError")
    /\ UNCHANGED <<fw_op, fw_type, fw_verify, fw_log, dev_app_id, dev_bootloader,
                   update_needed, radar_session, elsewhere>>

\* Step 1: the control script with --reset-bootloader
enter_bootloader_mode ==
    /\ fw_pc = "enter_bootloader_mode"
    /\ \E success \in BOOLEAN :
          /\ Ran("reset-bootloader", success)
          /\ IF success
             THEN dev_bootloader' = TRUE /\ FwGoto("flash_firmware")
             ELSE UNCHANGED dev_bootloader /\ FwReturn("DeviceError")
    /\ UNCHANGED <<fw_op, fw_type, fw_verify, dev_app_id, update_needed,
                   radar_session, elsewhere>>

\* Step 2: stm32flash.  Its exit status is all the function looks at; the
\* image the device holds afterwards is whatever the binary file and the
\* transfer made of it.
flash_firmware_unchecked ==
    /\ fw_pc = "flash_firmware"
    /\ \E success \in BOOLEAN :
          /\ Ran("stm32flash", success)
          /\ \E id \in AppIds : dev_app_id' = id
          /\ FwGoto("reset_to_run_mode")
    /\ UNCHANGED <<fw_op, fw_type, fw_verify, dev_bootloader, update_needed,
                   radar_session, elsewhere>>
flash_firmware ==
    /\ fw_pc = "flash_firmware"
    /\ \E success \in BOOLEAN :
          /\ Ran("stm32flash", success)
          /\ IF success
             THEN /\ \E id \in AppIds : dev_app_id' = id
                  /\ FwGoto("reset_to_run_mode")
             ELSE /\ UNCHANGED dev_app_id
                  /\ FwReturn("DeviceError")
    /\ UNCHANGED <<fw_op, fw_type, fw_verify, dev_bootloader, update_needed,
                   radar_session, elsewhere>>

\* Step 3: the control script with --reset-run; a device that is not seen
\* in run mode afterwards is a warning.  Step 4 follows `if verify`.
reset_to_run_mode ==
    /\ fw_pc = "reset_to_run_mode"
    /\ \E success \in BOOLEAN, verify_device_in_run_mode \in BOOLEAN :
          /\ Ran("reset-run", success)
          /\ IF success
             THEN /\ dev_bootloader' = ~verify_device_in_run_mode
                  /\ IF fw_verify
                     THEN FwGoto("verify_firmware")
                     ELSE FwReturn("Ok")
             ELSE /\ UNCHANGED dev_bootloader
                  /\ FwReturn("DeviceError")
    /\ UNCHANGED <<fw_op, fw_type, fw_verify, dev_app_id, update_needed,
                   radar_session, elsewhere>>

\* Step 4: a temporary radar reads the application id; a radar that cannot
\* connect is a warning.
verify_firmware ==
    /\ fw_pc = "verify_firmware"
    /\ \E opened \in BOOLEAN, connected \in BOOLEAN, read \in BOOLEAN :
          IF ~opened THEN FwReturn("I2c")
          ELSE IF ~(connected /\ ~dev_bootloader) THEN FwReturn("Ok")
          ELSE IF ~read THEN FwReturn("I2c")
          ELSE IF dev_app_id = application_id(fw_type) THEN FwReturn("Ok")
          ELSE FwReturn("DeviceError")
    /\ UNCHANGED <<fw_op, fw_type, fw_verify, fw_log, dev_app_id, dev_bootloader,
                   update_needed, radar_session, elsewhere>>

\* firmware_update_needed with the application id alone.
firmware_update_needed_by_id(id, t, device_sum, binary_sum) ==
    id # application_id(t)

\* firmware_update_needed(current_app_id, desired_type), given what
\* get_firmware_checksum and calculate_binary_checksum return.
firmware_update_needed(id, t, device_sum, binary_sum) ==
    IF id # application_id(t) THEN TRUE
    ELSE IF device_sum # <<>>
         THEN IF binary_sum # <<>>
              THEN device_sum[1] # binary_sum[1]
              ELSE FALSE
         ELSE FALSE

\* A caller asks whether an update is needed.
firmware_update_needed_call ==
    /\ fw_pc = "idle"
    /\ \E id \in AppIds, t \in FirmwareType,
          device_sum \in ChecksumResult, binary_sum \in ChecksumResult :
          /\ FwInvoke("firmware_update_needed", t, FALSE)
          /\ current_app_id' = id
          /\ device_checksum' = device_sum
          /\ binary_checksum' = binary_sum
          /\ fw_needed' = firmware_update_needed(id, t, device_sum, binary_sum)
    /\ fw_ret' = "Ok"
    /\ UNCHANGED <<fw_pc, manager>>

NextFirmware ==
    \/ update_firmware \/ update_firmware_with_verification
    \/ check_control_script \/ binary_exists
    \/ enter_bootloader_mode \/ flash_firmware
    \/ reset_to_run_mode \/ verify_firmware
    \/ firmware_update_needed_call

SpecFirmware == Init /\ [][NextFirmware]_vars

(* ------------- the device manager of src/src/device_manager.rs --------- *)

DmReturn(r) ==
    /\ dm_pc' = "idle"
    /\ dm_ret' = r

\* DeviceManager::update_firmware is called, the record of the programs
\* run starts afresh: `let state = self.check_device_presence().await`,
\* then the reset if it is needed.
dm_update_firmware ==
    /\ dm_pc = "idle"
    /\ fw_pc = "idle"
    /\ \E target_type \in FirmwareType, v \in BOOLEAN,
          present_on_bus \in BOOLEAN :
          /\ dm_target' = target_type
          /\ dm_verify' = v
          /\ dm_state' = check_device_presence(present_on_bus)
          /\ dm_pc' = IF ~present_on_bus THEN "dm_reset_to_run_mode"
                      ELSE "dm_current_type"
    /\ dm_ret' = "pending"
    /\ fw_log' = <<>>
    /\ UNCHANGED <<fw_pc, fw_op, fw_type, fw_verify, fw_ret, dev_app_id,
                   dev_bootloader, update_needed>>
    /\ UNCHANGED <<radar_session, call_history, gpio, monitor, erase>>

\* `self.reset_to_run_mode().await?`: the control script with --reset-run
\* (FirmwareManager::reset_to_run_mode), then a second look at the bus
\* whose DeviceState is dropped.
dm_reset_to_run_mode ==
    /\ dm_pc = "dm_reset_to_run_mode"
    /\ \E success \in BOOLEAN, verify_device_in_run_mode \in BOOLEAN,
          present_on_bus \in BOOLEAN :
          /\ Ran("reset-run", success)
          /\ IF ~success
             THEN /\ UNCHANGED dev_bootloader
                  /\ DmReturn("DeviceError")
             ELSE /\ dev_bootloader' = ~verify_device_in_run_mode
                  /\ IF check_device_presence(present_on_bus).is_responsive
                     THEN dm_pc' = "dm_current_type" /\ UNCHANGED dm_ret
                     ELSE DmReturn("DeviceError")
    /\ UNCHANGED <<dm_state, dm_target, dm_verify>>
    /\ UNCHANGED <<fw_pc, fw_op, fw_type, fw_verify, fw_ret, dev_app_id,
                   update_needed>>
    /\ UNCHANGED <<radar_session, call_history, gpio, monitor, erase>>

\* `if let Some(current_type) = state.firmware_type`, and the call of the
\* firmware manager when the update is not skipped.
dm_current_type ==
    /\ dm_pc = "dm_current_type"
    /\ IF dm_state.firmware_type = <<dm_target>>
       THEN /\ DmReturn("Ok")
            /\ UNCHANGED firmware
            /\ UNCHANGED <<radar_session, call_history, gpio, monitor, erase>>
       ELSE /\ FwCall(IF dm_verify THEN "update_firmware_with_verification"
                      ELSE "update_firmware", dm_target, dm_verify)
            /\ dm_pc' = "dm_final_state"
            /\ UNCHANGED dm_ret
    /\ UNCHANGED <<dm_state, dm_target, dm_verify>>

\* The call of the firmware manager has returned: `?`, then `let
\* final_state = self.check_device_presence().await` and the match on its
\* firmware_type.
dm_final_state ==
    /\ dm_pc = "dm_final_state"
    /\ fw_pc = "idle"
    /\ \E present_on_bus \in BOOLEAN :
          IF fw_ret # "Ok"
          THEN DmReturn(fw_ret) /\ UNCHANGED dm_state
          ELSE LET final_state == check_device_presence(present_on_bus) IN
               /\ dm_state' = final_state
               /\ IF final_state.firmware_type = <<dm_target>>
                  THEN DmReturn("Ok")
                  ELSE DmReturn("DeviceError")
    /\ UNCHANGED <<dm_target, dm_verify>>
    /\ UNCHANGED <<radar_session, firmware, call_history, gpio, monitor,
                   erase>>

NextDevice ==
    \/ dm_update_firmware \/ dm_reset_to_run_mode
    \/ dm_current_type \/ dm_final_state
    \/ check_control_script \/ binary_exists
    \/ enter_bootloader_mode \/ flash_firmware
    \/ reset_to_run_mode \/ verify_firmware

SpecDevice == Init /\ [][NextDevice]_vars

(* ---- firmware erase: src/src/main.rs, handlers.rs, firmware.rs ------- *)

\* What a step of the erase command leaves alone.
EraseFrame ==
    UNCHANGED <<fw_op, fw_type, fw_verify, update_needed, radar_session,
                elsewhere>>

\* The erase command is given, with or without --confirm.
EraseInvoke(o, c) ==
    /\ fw_pc = "idle"
    /\ fw_op' = o
    /\ confirm' = c
    /\ fw_log' = <<>>
    /\ UNCHANGED <<fw_type, fw_verify, dev_app_id, dev_bootloader, update_needed,
                   radar_session, call_history, gpio, monitor, manager>>

\* handle_firmware_erase_command of main.rs: without confirm a message and
\* `return Ok(())`, else erase_chip.
handle_firmware_erase_command_unconfirmed ==
    /\ fw_pc = "idle"
    /\ \E c \in BOOLEAN :
          /\ EraseInvoke("handle_firmware_erase_command", c)
          /\ fw_pc' = "erase_chip"
          /\ fw_ret' = "pending"
handle_firmware_erase_command ==
    /\ fw_pc = "idle"
    /\ \E c \in BOOLEAN :
          /\ EraseInvoke("handle_firmware_erase_command", c)
          /\ IF ~c THEN FwReturn("Ok")
             ELSE fw_pc' = "erase_chip" /\ fw_ret' = "pending"

\* erase_chip: `self.check_control_script()?`
erase_chip ==
    /\ fw_pc = "erase_chip"
    /\ \E exists \in BOOLEAN, executable \in BOOLEAN :
          IF exists /\ executable
          THEN FwGoto("erase_enter_bootloader_mode")
          ELSE FwReturn("FirmwareError")
    /\ UNCHANGED <<fw_log, dev_app_id, dev_bootloader>>
    /\ EraseFrame

\* Step 1 of erase_chip: `self.enter_bootloader_mode()?`
erase_enter_bootloader_mode ==
    /\ fw_pc = "erase_enter_bootloader_mode"
    /\ \E success \in BOOLEAN :
          /\ Ran("reset-bootloader", success)
          /\ IF success
             THEN dev_bootloader' = TRUE /\ FwGoto("erase_stm32flash")
             ELSE UNCHANGED dev_bootloader /\ FwReturn("DeviceError")
    /\ UNCHANGED dev_app_id
    /\ EraseFrame

\* Step 3 of erase_chip: stm32flash with -E; the erased device holds no
\* application.
erase_stm32flash ==
    /\ fw_pc = "erase_stm32flash"
    /\ \E success \in BOOLEAN :
          /\ Ran("stm32flash -E", success)
          /\ IF success
             THEN dev_app_id' = 0 /\ FwGoto("erase_reset_to_run_mode")
             ELSE UNCHANGED dev_app_id /\ FwReturn("DeviceError")
    /\ UNCHANGED dev_bootloader
    /\ EraseFrame

\* Step 4 of erase_chip: reset_to_run_mode, whose failure is expected and
\* logged; then Ok(()).
erase_reset_to_run_mode ==
    /\ fw_pc = "erase_reset_to_run_mode"
    /\ \E success \in BOOLEAN :
          /\ Ran("reset-run", success)
          /\ FwReturn("Ok")
    /\ UNCHANGED <<dev_app_id, dev_bootloader>>
    /\ EraseFrame

\* handle_firmware_erase_command of handlers.rs: without confirm
\* Err(DeviceError), else stm32flash is run.
handlers_handle_firmware_erase_command ==
    /\ fw_pc = "idle"
    /\ \E c \in BOOLEAN :
          /\ EraseInvoke("handlers_handle_firmware_erase_command", c)
          /\ IF ~c THEN FwReturn("DeviceError")
             ELSE fw_pc' = "handlers_stm32flash" /\ fw_ret' = "pending"

handlers_stm32flash ==
    /\ fw_pc = "handlers_stm32flash"
    /\ \E success \in BOOLEAN :
          /\ Ran("stm32flash", success)
          /\ FwReturn(IF success THEN "Ok" ELSE "DeviceError")
    /\ UNCHANGED <<dev_app_id, dev_bootloader>>
    /\ EraseFrame

NextErase ==
    \/ handle_firmware_erase_command \/ erase_chip
    \/ erase_enter_bootloader_mode \/ erase_stm32flash
    \/ erase_reset_to_run_mode
    \/ handlers_handle_firmware_erase_command \/ handlers_stm32flash

SpecErase == Init /\ [][NextErase]_vars

(* -------------- the GPIO controller of src/src/gpio.rs ---------------- *)

\* XM125GpioPins
Pins == {"reset", "mcu_interrupt", "wake_up", "boot"}

\* What the GPIO controller leaves alone.
outside_gpio == <<radar_session, firmware, call_history, monitor, erase,
                  manager>>

\* A public method is called on the idle controller: the bookkeeping of
\* the call starts afresh.
GpioInvoke(o, l) ==
    /\ gpio_pc = "idle"
    /\ gpio_op' = o
    /\ gpio_pc' = l
    /\ gpio_ret' = "pending"
    /\ gpio_i' = 1
    /\ gpio_log' = <<>>
    /\ gpio_before' = IF o = "initialize" THEN <<exported, direction>>
                       ELSE <<{}, [p \in Pins |-> "in"]>>
    /\ gpio_again' = (gpio_op = "initialize" /\ gpio_ret = "Ok" /\ gpio_quiet)
    /\ gpio_quiet' = TRUE
    /\ UNCHANGED <<initialized, exported, claimed, direction, value>>

GpioReturn(r) ==
    /\ gpio_pc' = "idle"
    /\ gpio_ret' = r
    /\ gpio_i' = 1

\* The next pin operation of the running step, or label l after the last
\* of n.
GpioNext(n, l) ==
    /\ gpio_pc' = IF gpio_i = n THEN l ELSE gpio_pc
    /\ gpio_i' = IF gpio_i = n THEN 1 ELSE gpio_i + 1
    /\ UNCHANGED gpio_ret

\* A write of the pin's number to /sys/class/gpio/export succeeds unless
\* another driver holds the pin; the pin appears as an input.
CanExport(p) == p \notin exported /\ p \notin claimed

Export(p) ==
    /\ exported' = exported \cup {p}
    /\ direction' = [direction EXCEPT ![p] = "in"]

\* A write to gpioN/direction; "out" drives the pin low.
WriteDirection(p, d) ==
    /\ direction' = [direction EXCEPT ![p] = d]
    /\ value' = IF d = "out" THEN [value EXCEPT ![p] = "Low"] ELSE value

\* The pins another driver may hold: the boot pin (the SPI controller of
\* fix_gpio141_bootloader_pin) and, of the pins export_gpio alone exports,
\* the reset pin.
Claimable == {"boot", "reset"}

\* Another driver takes a pin that is not exported.
PinClaimed ==
    /\ \E p \in Claimable :
          /\ p \notin exported
          /\ p \notin claimed
          /\ claimed' = claimed \cup {p}
    /\ gpio_quiet' = FALSE
    /\ UNCHANGED <<initialized, exported, direction, value, gpio_pc, gpio_op,
                   gpio_ret, gpio_i, gpio_log, gpio_before, gpio_again>>
    /\ UNCHANGED outside_gpio

\* Another process writes a pin's number to /sys/class/gpio/unexport; the
\* pin is an input when it is seen again.
PinUnexported ==
    /\ \E p \in exported :
          /\ exported' = exported \ {p}
          /\ direction' = [direction EXCEPT ![p] = "in"]
    /\ gpio_quiet' = FALSE
    /\ UNCHANGED <<initialized, claimed, value, gpio_pc, gpio_op,
                   gpio_ret, gpio_i, gpio_log, gpio_before, gpio_again>>
    /\ UNCHANGED outside_gpio

initialize ==
    /\ GpioInvoke("initialize", "fix_gpio141_bootloader_pin")
    /\ UNCHANGED outside_gpio

\* fix_gpio141_bootloader_pin that tries the export whether or not the pin
\* is there: the kernel refuses the number of a pin that is exported.
fix_gpio141_bootloader_pin_unchecked ==
    /\ gpio_pc = "fix_gpio141_bootloader_pin"
    /\ IF CanExport("boot")
       THEN /\ Export("boot")
            /\ gpio_pc' = "export_gpio"
            /\ UNCHANGED <<claimed, gpio_ret>>
       ELSE /\ GpioReturn("DeviceError")
            /\ UNCHANGED <<exported, claimed, direction>>
    /\ gpio_i' = 1
    /\ UNCHANGED <<initialized, value, gpio_op, gpio_log, gpio_before,
                   gpio_again, gpio_quiet>>
    /\ UNCHANGED outside_gpio

\* The pin is there, or its export succeeds, or the SPI devices and the
\* SPI controller are unbound and the export is tried once more.
fix_gpio141_bootloader_pin ==
    /\ gpio_pc = "fix_gpio141_bootloader_pin"
    /\ IF "boot" \in exported
       THEN /\ gpio_pc' = "export_gpio"
            /\ UNCHANGED <<exported, claimed, direction, gpio_ret>>
       ELSE IF CanExport("boot")
       THEN /\ Export("boot")
            /\ gpio_pc' = "export_gpio"
            /\ UNCHANGED <<claimed, gpio_ret>>
       ELSE \E freed \in BOOLEAN :
               IF freed
               THEN /\ claimed' = claimed \ {"boot"}
                    /\ Export("boot")
                    /\ gpio_pc' = "export_gpio"
                    /\ UNCHANGED gpio_ret
               ELSE /\ GpioReturn("DeviceError")
                    /\ UNCHANGED <<exported, claimed, direction>>
    /\ gpio_i' = 1
    /\ UNCHANGED <<initialized, value, gpio_op, gpio_log, gpio_before,
                   gpio_again, gpio_quiet>>
    /\ UNCHANGED outside_gpio

\* `self.export_gpio(..)?` of initialize, in its order
ExportOrder == <<"reset", "mcu_interrupt", "wake_up", "boot">>

export_gpio ==
    /\ gpio_pc = "export_gpio"
    /\ LET p == ExportOrder[gpio_i] IN
          IF p \in exported
          THEN /\ GpioNext(4, "set_gpio_direction")
               /\ UNCHANGED <<exported, direction>>
          ELSE IF CanExport(p)
          THEN Export(p) /\ GpioNext(4, "set_gpio_direction")
          ELSE /\ GpioReturn("DeviceError")
               /\ UNCHANGED <<exported, direction>>
    /\ UNCHANGED <<initialized, claimed, value, gpio_op, gpio_log, gpio_before,
                   gpio_again, gpio_quiet>>
    /\ UNCHANGED outside_gpio

\* `self.set_gpio_direction(..)?` of initialize, in its order
DirectionOrder ==
    <<[pin |-> "reset", direction |-> "out"],
      [pin |-> "mcu_interrupt", direction |-> "in"],
      [pin |-> "wake_up", direction |-> "out"],
      [pin |-> "boot", direction |-> "out"]>>

\* After the last direction: `self.initialized = true; Ok(())`
set_gpio_direction ==
    /\ gpio_pc = "set_gpio_direction"
    /\ LET d == DirectionOrder[gpio_i] IN
          IF d.pin \notin exported
          THEN /\ GpioReturn("DeviceError")
               /\ UNCHANGED <<direction, value, initialized>>
          ELSE /\ WriteDirection(d.pin, d.direction)
               /\ IF gpio_i = 4
                  THEN initialized' = TRUE /\ GpioReturn("Ok")
                  ELSE UNCHANGED initialized /\ GpioNext(4, "idle")
    /\ UNCHANGED <<exported, claimed, gpio_op, gpio_log, gpio_before, gpio_again,
                   gpio_quiet>>
    /\ UNCHANGED outside_gpio

\* The writes of reset_to_run_mode and reset_to_bootloader_mode before the
\* reset sequence: the boot pin, then the wake pin.
ModeWrites(level) ==
    <<[pin |-> "boot", value |-> level], [pin |-> "wake_up", value |-> "High"]>>

\* perform_reset_sequence with the reset released before it is asserted.
ResetWrites_released_first ==
    <<[pin |-> "reset", value |-> "High"],
      [pin |-> "reset", value |-> "Low"],
      [pin |-> "wake_up", value |-> "High"]>>

\* The writes of perform_reset_sequence.
ResetWrites ==
    <<[pin |-> "reset", value |-> "Low"],
      [pin |-> "reset", value |-> "High"],
      [pin |-> "wake_up", value |-> "High"]>>

\* Boot pin level of the running reset
BootLevel == IF gpio_op = "reset_to_bootloader_mode" THEN "High" ELSE "Low"

\* set_gpio_value without the test of self.initialized.
set_gpio_value_uninitialized(w, n, l) ==
    \E written \in BOOLEAN :
        IF w.pin \notin exported \/ ~written
        THEN /\ GpioReturn("DeviceError")
             /\ UNCHANGED <<value, gpio_log>>
        ELSE /\ value' = [value EXCEPT ![w.pin] = w.value]
             /\ gpio_log' = Append(gpio_log, w)
             /\ IF l = "idle" /\ gpio_i = n
                THEN GpioReturn("Ok")
                ELSE GpioNext(n, l)

\* `self.set_gpio_value(pin, value, name)?`, then label l after the last of
\* n writes; `written` is the outcome of std::fs::write on the value file.
set_gpio_value(w, n, l) ==
    \E written \in BOOLEAN :
        IF ~initialized \/ w.pin \notin exported \/ ~written
        THEN /\ GpioReturn("DeviceError")
             /\ UNCHANGED <<value, gpio_log>>
        ELSE /\ value' = [value EXCEPT ![w.pin] = w.value]
             /\ gpio_log' = Append(gpio_log, w)
             /\ IF l = "idle" /\ gpio_i = n
                THEN GpioReturn("Ok")
                ELSE GpioNext(n, l)

reset_to_run_mode_gpio ==
    /\ GpioInvoke("reset_to_run_mode", "set_mode_pins")
    /\ UNCHANGED outside_gpio

reset_to_bootloader_mode ==
    /\ GpioInvoke("reset_to_bootloader_mode", "set_mode_pins")
    /\ UNCHANGED outside_gpio

set_mode_pins ==
    /\ gpio_pc = "set_mode_pins"
    /\ set_gpio_value(ModeWrites(BootLevel)[gpio_i], 2, "perform_reset_sequence")
    /\ UNCHANGED <<initialized, exported, claimed, direction, gpio_op,
                   gpio_before, gpio_again, gpio_quiet>>
    /\ UNCHANGED outside_gpio

perform_reset_sequence ==
    /\ gpio_pc = "perform_reset_sequence"
    /\ set_gpio_value(ResetWrites[gpio_i], 3, "idle")
    /\ UNCHANGED <<initialized, exported, claimed, direction, gpio_op,
                   gpio_before, gpio_again, gpio_quiet>>
    /\ UNCHANGED outside_gpio

NextGpio ==
    \/ initialize \/ fix_gpio141_bootloader_pin
    \/ export_gpio \/ set_gpio_direction
    \/ reset_to_run_mode_gpio \/ reset_to_bootloader_mode
    \/ set_mode_pins \/ perform_reset_sequence
    \/ PinClaimed \/ PinUnexported

SpecGpio == Init /\ [][NextGpio]_vars

(* ------ continuous monitoring: src/src/monitoring.rs, src/src/main.rs --- *)

\* Measurements after which the model takes no further one.
MaxMeasurements == 4

\* --count of the command line: omitted, 0, and positive numbers.
Counts == {<<>>, <<0>>, <<1>>, <<3>>}

outside_monitor == <<radar_session, firmware, call_history, gpio, erase,
                     manager>>

\* A monitor function is called: `let mut measurement_count = 0`
MonitorInvoke(o, l) ==
    /\ mon_pc = "idle"
    /\ mon_op' = o
    /\ count' \in Counts
    /\ measurement_count' = 0
    /\ mon_pc' = l
    /\ mon_ret' = "pending"
    /\ UNCHANGED outside_monitor

MonitorReturn(r) ==
    /\ mon_pc' = "idle"
    /\ mon_ret' = r

\* `measurement_count < total_measurements`, where total_measurements is
\* count.unwrap_or(u32::MAX): no measurement_count of the model reaches
\* u32::MAX.
below_total == count = <<>> \/ measurement_count < count[1]

\* `count.is_some() && measurement_count >= total_measurements` and, in
\* main.rs, `if let Some(max_count) = count { measurement_count >= max_count }`,
\* of the count n just reached.
count_reached(n) == count # <<>> /\ n >= count[1]

\* The measurement of one turn (`?` on its error and on the CSV writer's),
\* `measurement_count += 1`, the break when the count is reached, the sleep.
Turn ==
    \E ok \in BOOLEAN :
       IF ~ok THEN MonitorReturn("Err") /\ UNCHANGED measurement_count
       ELSE /\ measurement_count < MaxMeasurements
            /\ measurement_count' = measurement_count + 1
            /\ IF count_reached(measurement_count + 1)
               THEN MonitorReturn("Ok")
               ELSE UNCHANGED <<mon_pc, mon_ret>>

monitor_distance_continuous ==
    /\ mon_pc = "idle"
    /\ MonitorInvoke("monitor_distance_continuous", "while")

monitor_presence_continuous ==
    /\ mon_pc = "idle"
    /\ MonitorInvoke("monitor_presence_continuous", "while")

\* One test of `while measurement_count < total_measurements` and the turn
\* that follows it; `Ok(())` when the test fails.
monitor_while ==
    /\ mon_pc = "while"
    /\ IF below_total THEN Turn
       ELSE MonitorReturn("Ok") /\ UNCHANGED measurement_count
    /\ UNCHANGED <<mon_op, count>>
    /\ UNCHANGED outside_monitor

\* monitor_measurements of main.rs
monitor_measurements ==
    /\ mon_pc = "idle"
    /\ MonitorInvoke("monitor_measurements", "loop")

\* One turn of its `loop`.
monitor_loop ==
    /\ mon_pc = "loop"
    /\ Turn
    /\ UNCHANGED <<mon_op, count>>
    /\ UNCHANGED outside_monitor

NextMonitor ==
    \/ monitor_distance_continuous \/ monitor_presence_continuous
    \/ monitor_while
    \/ monitor_measurements \/ monitor_loop

SpecMonitor == Init /\ [][NextMonitor]_vars

(* ------------------------------ properties ---------------------------- *)

\* Error bits of a status word: the detector-error bit and the per-step
\* error bits.
ErrorBits == STATUS_ERROR \cup STATUS_ALL_ERROR_MASK

MeasureDistanceCalls == {"measure_distance", "mod_measure_distance"}

\* The step just taken wrote command c.
JustWrote(c) == h_cmd # <<>> /\ h_cmd[1].cmd = c

\* The call o has returned r.
Returned(o, r) == pc = "idle" /\ op = o /\ ret = r

\* C1: a Distance detector writes the measure command only on a status
\* whose busy bit is clear, and a measurement it returns was read after a
\* status word with the busy bit clear.
C1_MeasureOnlyWhenNotBusy ==
    /\ (op \in MeasureDistanceCalls /\ JustWrote(CMD_MEASURE_DISTANCE))
          => h_cmd[1].status \cap STATUS_BUSY = {}
    /\ (\E o \in MeasureDistanceCalls : Returned(o, "Ok"))
          => (status # <<>> /\ status[1] \cap STATUS_BUSY = {})

\* C2: no command other than reset-module is written to the command
\* register while the status shows an error bit.
C2_OnlyResetOnError ==
    (h_cmd # <<>> /\ h_cmd[1].cmd # CMD_RESET_MODULE)
        => h_cmd[1].status \cap ErrorBits = {}

\* C3: a detector returns no measurement when the status word it read
\* before the result registers shows an error bit.
C3_NoMeasurementOnError ==
    (\E o \in MeasureDistanceCalls \cup {"measure_presence"} : Returned(o, "Ok"))
        => (status # <<>> /\ status[1] \cap ErrorBits = {})

\* C4: connect() whose first status read fails, whose GPIO reset succeeds
\* and whose status read after the reset succeeds returns Ok with
\* is_connected = true.
C4_ConnectAfterReset ==
    (pc = "idle" /\ op = "mod_connect" /\ h_reads = <<FALSE, TRUE>>
        /\ h_reset = <<TRUE>>)
        => (ret = "Ok" /\ is_connected)

C4_Witness ==
    /\ Returned("mod_connect", "Ok")
    /\ h_reads = <<FALSE, TRUE>>
    /\ h_reset = <<TRUE>>
    /\ is_connected

\* C5 as claimed: every failing connect() has made the first status read,
\* then a GPIO reset, then exactly one more status read, which failed.
C5_FailsOnlyAfterRetry ==
    Returned("mod_connect", "NotConnected")
        => (h_reads = <<FALSE, FALSE>> /\ Len(h_reset) = 1)

\* C5 as amended: every failing connect() has made a first status read that
\* failed and one GPIO reset; if the reset succeeded it has made exactly one
\* more status read, which failed, and if the reset failed it has made none.
C5_FailsAfterRetryOrFailedReset ==
    Returned("mod_connect", "NotConnected")
        => \/ (h_reset = <<TRUE>> /\ h_reads = <<FALSE, FALSE>>)
           \/ (h_reset = <<FALSE>> /\ h_reads = <<FALSE>>)

C5_Witness ==
    /\ Returned("mod_connect", "NotConnected")
    /\ h_reset = <<FALSE>>
    /\ h_reads = <<FALSE>>

C7_NotConnectedWritesNothing ==
    (/\ pc = "idle"
     /\ op \in {"measure_distance", "measure_presence", "measure_breathing"}
     /\ ~is_connected
     /\ ~auto_reconnect)
        => (ret = "NotConnected" /\ ~h_wrote)

\* C8: a distance measurement on a calibrated session has begun a
\* calibration before it writes the measure command exactly when the last
\* calibration was more than 5 minutes old at the call.
C8_StaleRecalibrates ==
    (/\ op \in MeasureDistanceCalls
     /\ JustWrote(CMD_MEASURE_DISTANCE)
     /\ attempt = 0
     /\ h_start # <<>>)
        => (h_recal <=> h_start[1] > CALIBRATION_STALE_MINUTES)

\* C9: a distance measurement is never returned from a result word whose
\* calibration-needed bit is set.
C9_NoStaleResult ==
    (\E o \in MeasureDistanceCalls : Returned(o, "Ok"))
        => (h_word # <<>> /\ h_word[1] \cap RESULT_CALIBRATION_NEEDED = {})

\* C10: in Distance mode the session is marked calibrated only on a status
\* word with the busy bit clear, the sensor-calibrate-ok and
\* detector-create-ok bits of the Distance layout set, and no error bit.
C10_CalibratedOnlyOnOk ==
    (h_cal # <<>> /\ detector_mode = "Distance")
        => /\ h_cal[1] \cap STATUS_BUSY = {}
           /\ h_cal[1] \cap STATUS_DISTANCE_SENSOR_CALIBRATE_OK # {}
           /\ h_cal[1] \cap STATUS_DISTANCE_DETECTOR_CREATE_OK # {}
           /\ h_cal[1] \cap ErrorBits = {}


\* C11: every status poll loop is bounded by a deadline counted from the
\* start of the loop, and a call whose poll loop ran to the deadline
\* without observing the awaited status does not return a measurement:
\* a presence measurement is returned only on a status that shows
\* measurement-ready, a breathing measurement only on a status that shows
\* busy clear.
C11_PollDeadlines ==
    /\ elapsed <= MaxPolls
    /\ Returned("measure_presence", "Ok") =>
          (status # <<>> /\ status[1] \cap STATUS_MEASUREMENT_READY # {})
    /\ Returned("measure_breathing", "Ok") =>
          (status # <<>> /\ status[1] \cap STATUS_BUSY = {})


\* The log of the running presence configuration sequence.
SetMax(S) == CHOOSE x \in S : \A y \in S : y <= x
CommandsAt(c) ==
    {i \in 1..Len(h_log) : h_log[i] = CommandEvent(c)}
RegisterWritesAfter(i, r) ==
    {j \in (i + 1)..Len(h_log) :
        h_log[j].ev = "register" /\ h_log[j].reg = r}
LastWritten(c) == h_log # <<>> /\ h_log[Len(h_log)] = CommandEvent(c)
ObservedAfter(i, mask) ==
    \E j \in (i + 1)..Len(h_log) :
        h_log[j].ev = "status" /\ h_log[j].st \cap mask = {}
ApplyIssued ==
    /\ op \in {"configure_presence_range", "mod_measure_presence"}
    /\ LastWritten(CMD_PRESENCE_APPLY_CONFIGURATION)

\* C12: when the Presence configuration sequence writes the
\* apply-configuration command, it has written the reset-module command
\* before, has written the profile, step-length, start and end registers
\* after that reset, and the device holds the values of those writes: the
\* start and end of the configured range.
C12_RangeWrittenAfterReset ==
    ApplyIssued =>
        /\ CommandsAt(CMD_PRESENCE_RESET_MODULE) # {}
        /\ \A r \in {"manual_profile", "manual_step_length", "start", "end"} :
              LET w == RegisterWritesAfter(
                           SetMax(CommandsAt(CMD_PRESENCE_RESET_MODULE)), r)
              IN  w # {} /\ dev_regs[r] = h_log[SetMax(w)].val
        /\ dev_regs["start"] = FinalRange[1]
        /\ dev_regs["end"] = FinalRange[2]

C12_Witness ==
    /\ ApplyIssued
    /\ FinalRange = <<500, 7000>>
    /\ dev_regs["start"] = 500
    /\ dev_regs["end"] = 7000

\* C13 (first part): the Presence configuration sequence writes the
\* start-detector command only after a status read that followed the
\* apply-configuration command showed busy clear and no error bit.
C13_StartAfterCleanStatus ==
    (op = "configure_presence_range"
        /\ LastWritten(CMD_PRESENCE_START_DETECTOR)) =>
        \E i \in CommandsAt(CMD_PRESENCE_APPLY_CONFIGURATION) :
            ObservedAfter(i, STATUS_BUSY_MASK \cup STATUS_ERROR_MASK)

\* C13: the Presence configuration sequence writes start-detector only
\* after apply-configuration was followed by a status read with busy clear
\* and no error bit, and it returns success only after a status read that
\* followed start-detector showed busy clear.
C13_StartThenPolled ==
    /\ C13_StartAfterCleanStatus
    /\ Returned("configure_presence_range", "Ok") =>
          \E i \in CommandsAt(CMD_PRESENCE_START_DETECTOR) :
              ObservedAfter(i, STATUS_BUSY_MASK)


\* C14: a Presence measurement is returned only from a result word whose
\* detector-error bit is clear; a read that finds the bit set is rejected
\* with an error.
C14_PresenceErrorRejected ==
    (\E o \in {"measure_presence", "mod_measure_presence"} :
        Returned(o, "Ok")) =>
        (h_word # <<>> /\ h_word[1] \cap RESULT_PRESENCE_DETECTOR_ERROR = {})


\* C17: a call of set_detector_mode on a connected session with a mode
\* that differs from the current one does not return at once: it goes on
\* to the configuration of the detector for the new mode.
C17_ModeSwitchConfigures ==
    [][(/\ pc = "idle"
        /\ op' \in {"set_detector_mode", "mod_set_detector_mode"}
        /\ is_connected
        /\ detector_mode' # detector_mode) => pc' # "idle"]_vars


\* C15: when calibrate has sent its command and its poll ends on a status
\* word whose only error bit is sensor-calibrate-error, the call fails with
\* a DeviceError whose message names the sensor calibration and no other
\* sub-step.
C15_CalibrationErrorNamed ==
    (/\ pc = "idle" /\ op = "calibrate" /\ h_wrote
     /\ status # <<>>
     /\ status[1] \cap STATUS_BUSY = {}
     /\ status[1] \cap ErrorBits = STATUS_SENSOR_CALIBRATE_ERROR) =>
        (ret = "DeviceError" /\ message = <<"Sensor calibration failed">>)

C15_Witness ==
    /\ Returned("calibrate", "DeviceError")
    /\ h_wrote
    /\ status = <<{0, 1, 2, 24}>>
    /\ message = <<"Sensor calibration failed">>


\* C16: a call that ends in a bus-level I/O error leaves the session
\* Disconnected, so that the next measurement call takes the not-connected
\* path.
C16_BusErrorDisconnects ==
    (pc = "idle" /\ ret = "I2c") => ~is_connected


C19_WrongFirmwareNotSuccess ==
    (/\ fw_pc = "idle"
     /\ fw_op \in {"update_firmware", "update_firmware_with_verification"}
     /\ fw_ret = "Ok") =>
        dev_app_id = application_id(fw_type)

\* C20: firmware_update_needed returns true whenever current_app_id is not
\* the id of the desired type (1 Distance, 2 Presence, 3 Breathing); when
\* the ids match it returns true if both checksums were obtained and
\* differ, and false otherwise.
C20_UpdateNeeded ==
    (fw_pc = "idle" /\ fw_op = "firmware_update_needed") =>
        LET expected_id == IF fw_type = "Distance" THEN 1
                           ELSE IF fw_type = "Presence" THEN 2 ELSE 3
            differ == /\ device_checksum # <<>>
                      /\ binary_checksum # <<>>
                      /\ device_checksum # binary_checksum
        IN  /\ fw_ret = "Ok"
            /\ (current_app_id # expected_id) => fw_needed
            /\ (current_app_id = expected_id) => (fw_needed <=> differ)
            /\ (current_app_id = 1 /\ fw_type = "Presence") => fw_needed

\* The ids match, the checksums differ, and an update is needed.
C20_Witness ==
    /\ fw_pc = "idle"
    /\ fw_op = "firmware_update_needed"
    /\ current_app_id = 2
    /\ fw_type = "Presence"
    /\ device_checksum = <<"md5_a">>
    /\ binary_checksum = <<"md5_b">>
    /\ fw_needed


RECURSIVE IsPrefix(_, _)
IsPrefix(a, b) ==
    \/ a = <<>>
    \/ /\ b # <<>>
       /\ Head(a) = Head(b)
       /\ IsPrefix(Tail(a), Tail(b))

\* The order of pin writes of a reset with the boot pin at the given level.
ResetOrder(level) ==
    <<[pin |-> "boot", value |-> level],
      [pin |-> "wake_up", value |-> "High"],
      [pin |-> "reset", value |-> "Low"],
      [pin |-> "reset", value |-> "High"],
      [pin |-> "wake_up", value |-> "High"]>>

GpioResets == {"reset_to_run_mode", "reset_to_bootloader_mode"}

\* C21: reset_to_run_mode and reset_to_bootloader_mode write the pins in
\* the order boot-select to the target level, wake high, reset low, reset
\* high, wake high; they differ only in the boot-select level (low for run
\* mode, high for bootloader), and boot-select holds that level from its
\* write to the end of the call.
C21_ResetOrder ==
    gpio_op \in GpioResets =>
        LET level == IF gpio_op = "reset_to_run_mode" THEN "Low" ELSE "High" IN
        /\ IsPrefix(gpio_log, ResetOrder(level))
        /\ (gpio_pc = "idle" /\ gpio_ret = "Ok") => gpio_log = ResetOrder(level)
        /\ (gpio_log # <<>> /\ (gpio_pc # "idle" \/ gpio_ret = "Ok"))
              => value["boot"] = level

\* A reset to bootloader mode has run to its end.
C21_Witness ==
    /\ gpio_pc = "idle"
    /\ gpio_op = "reset_to_bootloader_mode"
    /\ gpio_ret = "Ok"
    /\ Len(gpio_log) = 5
    /\ value["boot"] = "High"
    /\ value["reset"] = "High"

C23_SensitivityRejected ==
    (/\ pc = "idle" /\ op = "configure_presence_parameters"
     /\ sensitivity # <<>>
     /\ (sensitivity[1] < 1 \/ sensitivity[1] > 50)) =>
        (ret = "InvalidParameters" /\ h_log = <<>>)


\* C24: the status masks are those of the application in use.  A
\* calibration that passes in Distance mode has seen detector-create-ok at
\* bit 3 and sensor-calibrate-ok at bit 8; one that passes in Presence mode
\* has seen sensor-calibrate-ok at bit 3 and detector-create-ok at bit 4.
C24_MasksPerApplication ==
    h_cal # <<>> =>
        /\ detector_mode = "Distance" =>
              /\ STATUS_DISTANCE_DETECTOR_CREATE_OK \subseteq h_cal[1]
              /\ STATUS_DISTANCE_SENSOR_CALIBRATE_OK \subseteq h_cal[1]
        /\ detector_mode = "Presence" =>
              /\ STATUS_SENSOR_CALIBRATE_OK \subseteq h_cal[1]
              /\ STATUS_DETECTOR_CREATE_OK \subseteq h_cal[1]


\* C25: within one call, a command is written to the command register only
\* when the device has finished the command written before it: the status
\* at the moment of a second or later write has the busy bit clear.
C25_NoCommandWhileBusy ==
    [][(/\ pc # "idle"
        /\ h_wrote
        /\ pc' # pc
        /\ h_cmd' # <<>>) => (h_cmd'[1].status \cap STATUS_BUSY = {})]_vars


\* The preset is in use: configure_range gets no custom range.
PresetInUse == ~(start_m > 0 /\ length_m > 0)

\* C26: for each of the three PresenceRange presets configure_range
\* returns the profile of the table on the range end (0.7 m: 1, 2.0 m: 2,
\* 5.5 m: 4) and a step length in [12, 120]; configure_thresholds writes
\* that pair in manual profile mode.
C26_PresetProfile ==
    PresetInUse =>
        /\ presence_range = "Short" => configure_range[1] = 1
        /\ presence_range = "Medium" => configure_range[1] = 2
        /\ presence_range = "Long" => configure_range[1] = 4
        /\ 12 <= configure_range[2] /\ configure_range[2] <= 120
        /\ \A i \in 1..Len(h_log) :
              (/\ \A j \in 1..i : h_log[j].ev = "register"
               /\ h_log[i].reg = "manual_profile")
                  => h_log[i].val = configure_range[1]

\* The Short preset has been written with the manual profile.
C26_Witness ==
    /\ PresetInUse
    /\ presence_range = "Short"
    /\ \E i \in 1..Len(h_log) :
          /\ h_log[i] = RegisterEvent("manual_profile", 1)
          /\ i < Len(h_log)
          /\ h_log[i + 1] = RegisterEvent("manual_step_length", 12)

\* round(x * 1000) of a distance x held in micrometres.
RoundedMm(um) == (um + 500) \div 1000

\* The value a range register is to hold after a configuration of
\* (start_m, length_m).
RangeValue(reg, args) ==
    IF reg = "start" THEN RoundedMm(args[1]) ELSE RoundedMm(args[1] + args[2])

\* C27: for every start_m >= 0 and length_m > 0, configuring the distance
\* range leaves round(start_m * 1000) in the start register and
\* round((start_m + length_m) * 1000) in the end register: each register
\* written holds the big-endian bytes of that number of millimetres.
C27_RangeRounded ==
    \A i \in 1 .. Len(range_log) :
        (range_args[1] >= 0 /\ range_args[2] > 0) =>
            range_log[i].bytes
                = to_be_bytes(RangeValue(range_log[i].reg, range_args))

\* v, held as <<whole part, thousandths>>, is raw divided by 1000.
IsThousandthOf(v, raw) ==
    /\ v[2] \in 0 .. 999
    /\ v[1] * 1000 + v[2] = raw

\* The number a register holds: its four bytes, most significant first.
BigEndian(b) == b[1] * 16777216 + b[2] * 65536 + b[3] * 256 + b[4]

\* The raw registers of the example: result 0x1, distance 2500 (0x09C4),
\* intra score 1300 (0x0514), inter score 1000 (0x03E8).
ExampleRead ==
    /\ measurement # <<>>
    /\ h_word = <<{0}>>
    /\ h_raw = << << <<0, 0, 9, 196>>, <<0, 0, 5, 20>>, <<0, 0, 3, 232>> >> >>

\* C28: a presence measurement that is returned has presence_detected equal
\* to bit 0 of the result register, and its distance and its two scores are
\* the big-endian values of their registers divided by 1000; the raw values
\* (0x1, 2500, 1300, 1000) decode to (true, 2.5, 1.3, 1.0).
C28_PresenceDecoded ==
    measurement # <<>> =>
        /\ measurement[1].presence_detected = (0 \in h_word[1])
        /\ IsThousandthOf(measurement[1].presence_distance,
                          BigEndian(h_raw[1][1]))
        /\ IsThousandthOf(measurement[1].intra_presence_score,
                          BigEndian(h_raw[1][2]))
        /\ IsThousandthOf(measurement[1].inter_presence_score,
                          BigEndian(h_raw[1][3]))
        /\ ExampleRead =>
              measurement[1] = [presence_detected |-> TRUE,
                                presence_distance |-> <<2, 500>>,
                                intra_presence_score |-> <<1, 300>>,
                                inter_presence_score |-> <<1, 0>>]

\* The example has been read and returned by measure of radar/presence.rs.
C28_Witness ==
    /\ pc = "idle"
    /\ op = "mod_measure_presence"
    /\ ret = "Ok"
    /\ ExampleRead

\* C29: continuous monitoring with count 0 behaves like monitoring with the
\* count omitted: it keeps taking measurements and never returns Ok for
\* having reached a count (only an error of a measurement or of an output
\* ends it).
C29_CountZeroNeverStops ==
    (/\ mon_pc = "idle"
     /\ mon_op # "new"
     /\ count \in {<<>>, <<0>>}) => mon_ret # "Ok"

\* The program run just before the i-th one of the call was p, and it
\* reported success.
AfterSuccessOf(i, p) ==
    /\ i > 1
    /\ fw_log[i - 1] = [program |-> p, success |-> TRUE]

\* C30: a firmware update enters the bootloader, runs the flasher, then
\* resets to run mode: the flasher is run only right after a bootloader
\* entry that succeeded, and the reset to run mode only right after a run
\* of the flasher that reported success; the bootloader entry comes first.
C30_UpdateOrder ==
    \A i \in 1 .. Len(fw_log) :
        /\ fw_log[i].program = "reset-bootloader" => i = 1
        /\ fw_log[i].program = "stm32flash"
              => AfterSuccessOf(i, "reset-bootloader")
        /\ fw_log[i].program = "reset-run" => AfterSuccessOf(i, "stm32flash")

\* An update has run its three programs, each with success, and returned Ok.
C30_Witness ==
    /\ fw_pc = "idle"
    /\ fw_op = "update_firmware"
    /\ fw_ret = "Ok"
    /\ Len(fw_log) = 3
    /\ \A i \in 1 .. 3 : fw_log[i].success
    /\ fw_log[3].program = "reset-run"

\* The call is an erase command.
EraseCommand ==
    fw_op \in {"handle_firmware_erase_command",
               "handlers_handle_firmware_erase_command"}

\* C31: a firmware erase requested without the confirm flag runs no
\* program at all: no bootloader entry, no flasher, no chip erase, and the
\* device is left as it was.
C31_EraseNeedsConfirm ==
    (EraseCommand /\ ~confirm) => (fw_log = <<>> /\ fw_pc = "idle")

\* An unconfirmed erase command has returned.
C31_Witness ==
    /\ fw_op = "handle_firmware_erase_command"
    /\ ~confirm
    /\ fw_pc = "idle"
    /\ fw_ret = "Ok"

\* C32: when auto_connect() or connect_async() has returned an error the
\* session is not connected: is_connected is true only after a connection
\* attempt that returned success.
C32_ErrorMeansNotConnected ==
    (/\ pc = "idle"
     /\ op \in {"auto_connect", "connect_async"}
     /\ ret # "Ok") => ~is_connected

\* C33: between calls, whenever is_calibrated is true and the calibration
\* is not stale, the device has completed a calibration since the last
\* reset-module command it was sent; a distance measurement after
\* disconnect() and connect() does not skip calibration.
C33_CalibratedMeansDeviceCalibrated ==
    (pc = "idle" /\ ~NeedsCalibration) => dev_calibrated

\* C34: measure_distance() terminates whatever the device does: a call
\* that is running returns, the loop that recalibrates and reads the
\* result again being left after a bounded number of turns.
C34_MeasureDistanceTerminates ==
    (op = "measure_distance" /\ pc # "idle") ~> (pc = "idle")

\* C35: when auto_profile_enabled is set in the configuration, the
\* auto-profile and auto-step-length registers of the device hold 1 at
\* the moment the presence apply-configuration command is written.
C35_AutoProfileAtApply ==
    (ApplyIssued /\ auto_profile_enabled) =>
        /\ dev_regs["auto_profile"] = 1
        /\ dev_regs["auto_step_length"] = 1

\* C36: the manual profile and the manual step length the device holds
\* at the moment the presence apply-configuration command is written are
\* the pair configure_range returned for the configured range.
C36_ManualProfileAtApply ==
    ApplyIssued =>
        /\ dev_regs["manual_profile"] = configure_range[1]
        /\ dev_regs["manual_step_length"] = configure_range[2]


\* C37: when the reconfiguration run by set_detector_mode fails, the call
\* returns the error and the detector mode of the session is the mode it
\* had before the call.
C37_ModeKeptOnFailure ==
    (pc = "idle" /\ op = "set_detector_mode" /\ ret # "Ok") =>
        (old_mode # <<>> /\ detector_mode = old_mode[1])


\* A reset operation of the GPIO controller has returned.
ResetReturned ==
    /\ gpio_pc = "idle"
    /\ gpio_op \in {"reset_to_run_mode", "reset_to_bootloader_mode"}

\* C38: whenever a GPIO reset operation returns, with success or with an
\* error, after it drove the reset line low, it has driven the reset line
\* high after that: the module is not left held in reset.
C38_ResetReleased ==
    ResetReturned =>
        \A i \in 1..Len(gpio_log) :
            gpio_log[i] = [pin |-> "reset", value |-> "Low"] =>
                \E j \in (i + 1)..Len(gpio_log) :
                    gpio_log[j] = [pin |-> "reset", value |-> "High"]


\* C40: a new GPIO controller is not initialized, and as long as the
\* controller is not initialized a reset operation, whose first step is a
\* set_gpio_value, writes no pin value and returns DeviceError.
C40_UninitializedWritesNothing ==
    /\ gpio_op = "new" => ~initialized
    /\ (/\ ~initialized
        /\ gpio_op \in {"reset_to_run_mode", "reset_to_bootloader_mode"}) =>
           /\ gpio_log = <<>>
           /\ gpio_pc = "idle" => gpio_ret = "DeviceError"

\* A reset was refused on a controller that is not initialized although
\* the pins it would write are there.
C40_Witness ==
    /\ ResetReturned
    /\ ~initialized
    /\ {"boot", "wake_up", "reset"} \subseteq exported
    /\ gpio_ret = "DeviceError"


\* The flash of the running update succeeded.
Flashed == \E i \in 1..Len(fw_log) :
               fw_log[i] = [program |-> "stm32flash", success |-> TRUE]

\* C39: DeviceManager::update_firmware returns success when the update of
\* the firmware manager, flash included, succeeded and the device is seen
\* on the bus, in run mode, afterwards.
C39_UpdateSucceeds ==
    (/\ dm_pc = "idle"
     /\ fw_op \in {"update_firmware", "update_firmware_with_verification"}
     /\ fw_ret = "Ok"
     /\ Flashed
     /\ dm_state.is_present
     /\ ~dev_bootloader) => dm_ret = "Ok"

============================================================================
